---- MODULE Spec2Model ----
(***************************************************************************)
(* A model of nixts: the DevShellBuilder, HomeManagerBuilder and           *)
(* FlakeBuilder classes and the text they render.  Builders are objects    *)
(* with identity (they are attached to a FlakeBuilder by reference), so    *)
(* they live in heaps indexed by address.  Rendered text is modelled as    *)
(* the very string the TypeScript template literals produce.               *)
(***************************************************************************)
EXTENDS Integers, Sequences, FiniteSets, TLC

VARIABLES
    shells,               \* heap of DevShellBuilder objects, by address
    homes,                \* heap of HomeManagerBuilder objects, by address
    heap,                 \* heap of plain JavaScript objects (configuration values)
    inputs,               \* FlakeBuilder.inputs (own properties, in enumeration order)
    description,          \* FlakeBuilder.description
    devShells,            \* FlakeBuilder.devShells: addresses into shells
    homeConfigurations,   \* FlakeBuilder.homeConfigurations: addresses into homes
    last,                 \* the call made last: what it was given and how it ended
    supplied,             \* history: per DevShellBuilder, the package names that
                          \* calls which returned normally were given, in order
    attached,             \* history: <<kind, builder, its text when attached>>, in order
    registered,           \* history: the <<name, url>> of each withInput call, in order
    files,                \* the file system the CLI works on: a set of <<path, content>>
    child                 \* the CLI process awaiting the user script: the promise of
                          \* executeTypeScriptFile, its buffers, the events delivered

vars == <<shells, homes, heap, inputs, description, devShells,
          homeConfigurations, last, supplied, attached,
          registered, files, child>>

\* What the methods of DevShellBuilder and HomeManagerBuilder leave alone: the
\* fields of the FlakeBuilder, the histories kept of it, the file system.
flakeVars == <<inputs, description, devShells, homeConfigurations, attached, registered,
               files, child>>

----------------------------------------------------------------------------
(* Bounds of the model.                                                    *)

MaxPkgs == 2          \* most names a builder's package list is grown to
MaxArgs == 2          \* most names given to one withPackages / withPythonPackages call

----------------------------------------------------------------------------
(* Strings: the operations of JavaScript strings and arrays the code uses. *)

RECURSIVE Join(_, _)
\* Array.prototype.join
Join(seq, sep) ==
    IF Len(seq) = 0 THEN ""
    ELSE IF Len(seq) = 1 THEN seq[1]
    ELSE seq[1] \o sep \o Join(Tail(seq), sep)

StartsWith(s, p) == Len(p) <= Len(s) /\ SubSeq(s, 1, Len(p)) = p

EndsWith(s, p) == Len(p) <= Len(s) /\ SubSeq(s, Len(s) - Len(p) + 1, Len(s)) = p

RECURSIVE IndexIn(_, _, _, _)
\* The least position in lo..hi at which p occurs in s, 0 when there is none.
IndexIn(s, p, lo, hi) ==
    IF lo > hi THEN 0
    ELSE IF lo = hi THEN (IF SubSeq(s, lo, lo + Len(p) - 1) = p THEN lo ELSE 0)
    ELSE LET mid == (lo + hi) \div 2
             left == IndexIn(s, p, lo, mid)
         IN  IF left /= 0 THEN left ELSE IndexIn(s, p, mid + 1, hi)

\* String.prototype.indexOf, counted from 1 (0 when p does not occur).
IndexOf(s, p) == IndexIn(s, p, 1, Len(s) - Len(p) + 1)

Contains(s, p) == IndexOf(s, p) /= 0

RECURSIVE Split(_, _)
\* String.prototype.split with a non-empty separator
Split(s, sep) ==
    LET i == IndexOf(s, sep)
    IN  IF i = 0 THEN <<s>>
        ELSE <<SubSeq(s, 1, i - 1)>> \o Split(SubSeq(s, i + Len(sep), Len(s)), sep)

\* pkgs.map(p => prefix + p)
Prefixed(prefix, pkgs) == [i \in 1..Len(pkgs) |-> prefix \o pkgs[i]]

\* All sequences over S of length at most n.
SeqsUpTo(S, n) == UNION {[1..k -> S] : k \in 0..n}

----------------------------------------------------------------------------
(* The allow-list of python package names.                                 *)

\* src/nixpkgs/python.ts: new Set(pkgs); the names below are among those the
\* repository's examples pass to withPythonPackages.
PythonPackages == {"numpy", "pandas"}

validatePythonPackagesFirstOnly(names) ==
    LET bad == SelectSeq(names, LAMBDA name : name \notin PythonPackages)
    IN  IF Len(bad) = 0 THEN bad ELSE <<bad[1]>>

\* validatePythonPackages: names.filter(name => !PythonPackages.has(name))
validatePythonPackages(names) ==
    SelectSeq(names, LAMBDA name : name \notin PythonPackages)

----------------------------------------------------------------------------
(* DevShellBuilder.                                                        *)

\* The fields of a DevShellBuilder after its constructor.
DevShellBuilder_new(name) ==
    [name |-> name, system |-> "x86_64-linux",
     packages |-> <<>>, pythonPackages |-> <<>>]

\* The outcome of a method call: the receiver's fields after it, whether it
\* threw, and the string returned or the message of the Error thrown.
Outcome(obj, threw, value) == [obj |-> obj, threw |-> threw, value |-> value]

DevShellBuilder_withPackages_prepend(sh, pkgs) ==
    Outcome([sh EXCEPT !.packages = pkgs \o @], FALSE, "")

\* withPackages: this.packages.push(...pkgs)
DevShellBuilder_withPackages(sh, pkgs) ==
    Outcome([sh EXCEPT !.packages = @ \o pkgs], FALSE, "")

\* A per-element variant: appends each name as it is validated and throws at
\* the first invalid one.
DevShellBuilder_withPythonPackages_partial(sh, pkgs) ==
    LET invalid == validatePythonPackages(pkgs)
        firstBad == CHOOSE i \in 1..Len(pkgs) :
                        /\ pkgs[i] \notin PythonPackages
                        /\ \A j \in 1..(i - 1) : pkgs[j] \in PythonPackages
    IN  IF Len(invalid) /= 0
        THEN Outcome([sh EXCEPT !.pythonPackages = @ \o SubSeq(pkgs, 1, firstBad - 1)],
                     TRUE, "Invalid Python packages: " \o Join(invalid, ", "))
        ELSE Outcome([sh EXCEPT !.pythonPackages = @ \o pkgs], FALSE, "")

\* withPythonPackages: validate the whole call, throw on any invalid name,
\* append otherwise.
DevShellBuilder_withPythonPackages(sh, pkgs) ==
    LET invalid == validatePythonPackages(pkgs)
    IN  IF Len(invalid) /= 0
        THEN Outcome(sh, TRUE, "Invalid Python packages: " \o Join(invalid, ", "))
        ELSE Outcome([sh EXCEPT !.pythonPackages = @ \o pkgs], FALSE, "")

\* withSystem: this.system = system
DevShellBuilder_withSystem(sh, system) ==
    Outcome([sh EXCEPT !.system = system], FALSE, "")

\* buildAst(): the fields of the builder.
DevShellBuilder_buildAst(sh) ==
    [name |-> sh.name, system |-> sh.system,
     packages |-> sh.packages, pythonPackages |-> sh.pythonPackages]

\* A variant that names the platform in the block.
DevShellBuilder_toNix_forSystem(sh) ==
    LET pkgsList == Join(Prefixed("pkgs.", sh.packages), " ")
        pyList == Join(Prefixed("pkgs.python3Packages.", sh.pythonPackages), " ")
    IN  "      " \o sh.name \o " = pkgs.mkShell {\n"
        \o "        system = \"" \o sh.system \o "\";\n"
        \o "        buildInputs = [ " \o pkgsList \o " " \o pyList \o " ];\n"
        \o "      };"

\* toNix: the template literal of the method.
DevShellBuilder_toNix(sh) ==
    LET pkgsList == Join(Prefixed("pkgs.", sh.packages), " ")
        pyList == Join(Prefixed("pkgs.python3Packages.", sh.pythonPackages), " ")
    IN  "      " \o sh.name \o " = pkgs.mkShell {\n"
        \o "        buildInputs = [ " \o pkgsList \o " " \o pyList \o " ];\n"
        \o "      };"

----------------------------------------------------------------------------
(* JavaScript values.  A value is a primitive or a reference to an object  *)
(* of the heap; objects and arrays are mutable and may be shared.          *)

\* A value: its typeof tag t, the text v of a primitive (a number is kept as
\* its decimal text, a boolean as true / false), the address a of an object.
Val(t, v, a) == [t |-> t, v |-> v, a |-> a]
VStr(s) == Val("string", s, 0)
VNum(s) == Val("number", s, 0)
VBool(b) == Val("boolean", IF b THEN "true" ELSE "false", 0)
VNull == Val("null", "", 0)
VUndefined == Val("undefined", "", 0)
VRef(a) == Val("object", "", a)
\* A value of a type toNixValue has no case for (a primitive: typeof "symbol").
VSymbol == Val("symbol", "", 0)

IsObject(val) == val.t = "object"

\* JavaScript truthiness: !val is the negation of this.
Truthy(val) ==
    CASE val.t = "string" -> val.v /= ""
      [] val.t = "number" -> val.v /= "0"
      [] val.t = "boolean" -> val.v = "true"
      [] val.t = "object" -> TRUE
      [] val.t = "symbol" -> TRUE
      [] OTHER -> FALSE

\* The canonical array-index strings the model uses as keys, in numeric order.
IndexKeys == <<"0", "1", "2", "3">>
IsIndexKey(k) == \E i \in DOMAIN IndexKeys : IndexKeys[i] = k
IndexOfKey(k) == CHOOSE i \in DOMAIN IndexKeys : IndexKeys[i] = k

\* An object of the heap: its own enumerable string-keyed properties in the
\* order Object.entries lists them, and whether it is an Array.
Obj(isArray, props) == [isArray |-> isArray, props |-> props]
Prop(k, val) == [k |-> k, val |-> val]

PropPos(props, k) ==
    IF \E i \in DOMAIN props : props[i].k = k
    THEN CHOOSE i \in DOMAIN props : props[i].k = k
    ELSE 0

\* obj[k] of an ordinary object whose prototype chain does not define k.
GetOwn(props, k) ==
    IF PropPos(props, k) = 0 THEN VUndefined ELSE props[PropPos(props, k)].val

InsertAt(seq, i, e) == SubSeq(seq, 1, i - 1) \o <<e>> \o SubSeq(seq, i, Len(seq))

\* obj[k] = val on an ordinary object: an existing property keeps its place;
\* a new array-index key goes among the index keys in ascending numeric
\* order, ahead of every other key; any other new key goes last
\* (OrdinaryOwnPropertyKeys).
PutOwn(props, k, val) ==
    IF PropPos(props, k) /= 0
    THEN [props EXCEPT ![PropPos(props, k)].val = val]
    ELSE IF IsIndexKey(k)
    THEN LET before == {i \in DOMAIN props :
                           IsIndexKey(props[i].k) /\ IndexOfKey(props[i].k) < IndexOfKey(k)}
         IN  InsertAt(props, Cardinality(before) + 1, Prop(k, val))
    ELSE Append(props, Prop(k, val))

\* A value as written by the caller: a literal.  Evaluating it allocates a
\* fresh object for every object and array literal in it.
Lit(t, v, kids) == [t |-> t, v |-> v, kids |-> kids]
LStr(s) == Lit("string", s, <<>>)
LNum(s) == Lit("number", s, <<>>)
LBool(b) == Lit("boolean", IF b THEN "true" ELSE "false", <<>>)
LNull == Lit("null", "", <<>>)
LUndefined == Lit("undefined", "", <<>>)
LSymbol == Lit("symbol", "", <<>>)
\* { k1: v1, ... } with kids = << <<k1, v1>>, ... >>
LObj(kids) == Lit("object", "", kids)
\* [ v1, ... ]
LArr(items) == Lit("array", "", [i \in 1..Len(items) |-> <<IndexKeys[i], items[i]>>])

RECURSIVE Eval(_, _)
RECURSIVE EvalKids(_, _, _)
\* Evaluates the property definitions of an object or array literal in turn.
EvalKids(h, kids, props) ==
    IF kids = <<>> THEN [h |-> h, props |-> props]
    ELSE LET r == Eval(h, Head(kids)[2])
         IN  EvalKids(r.h, Tail(kids), PutOwn(props, Head(kids)[1], r.val))

\* Evaluates a literal in heap h: the heap after it and the value.
Eval(h, lit) ==
    IF lit.t \in {"object", "array"}
    THEN LET r == EvalKids(h, lit.kids, <<>>)
         IN  [h |-> Append(r.h, Obj(lit.t = "array", r.props)),
              val |-> VRef(Len(r.h) + 1)]
    ELSE [h |-> h, val |-> Val(lit.t, lit.v, 0)]

\* "  ".repeat(n)
RECURSIVE Indent(_)
Indent(n) == IF n <= 0 THEN "" ELSE "  " \o Indent(n - 1)

----------------------------------------------------------------------------
(* HomeManagerBuilder.  Its programs, services and homeConfig fields are   *)
(* objects of the heap; the builder holds their addresses.                 *)

\* The outcome of a HomeManagerBuilder method: the receiver's fields and the
\* heap after it, whether it threw, and the string returned or the name of
\* the error thrown.
OutcomeH(obj, h, threw, value) == [obj |-> obj, h |-> h, threw |-> threw, value |-> value]

\* The fields after the constructor, the three records allocated in heap h.
HomeManagerBuilder_new(h, username) ==
    [obj |-> [username |-> username, homeDirectory |-> VUndefined,
              stateVersion |-> "24.05", packages |-> <<>>,
              programs |-> Len(h) + 1, services |-> Len(h) + 2,
              homeConfig |-> Len(h) + 3, modules |-> <<>>],
     h |-> h \o <<Obj(FALSE, <<>>), Obj(FALSE, <<>>), Obj(FALSE, <<>>)>>]

HomeManagerBuilder_withHomeDirectory(h, hm, path) ==
    OutcomeH([hm EXCEPT !.homeDirectory = VStr(path)], h, FALSE, "")

HomeManagerBuilder_withStateVersion(h, hm, version) ==
    OutcomeH([hm EXCEPT !.stateVersion = version], h, FALSE, "")

HomeManagerBuilder_withPackages(h, hm, pkgs) ==
    OutcomeH([hm EXCEPT !.packages = @ \o pkgs], h, FALSE, "")

\* The parameter `config: any = { enable: true }`: an argument that is
\* undefined, or left out, is replaced by a fresh object { enable: true }.
ConfigOrDefault(h, config) ==
    IF config.t = "undefined"
    THEN Eval(h, LObj(<< <<"enable", LBool(TRUE)>> >>))
    ELSE [h |-> h, val |-> config]

\* this.programs[name] = config
HomeManagerBuilder_enableProgram(h, hm, name, config) ==
    LET c == ConfigOrDefault(h, config)
    IN  OutcomeH(hm, [c.h EXCEPT ![hm.programs].props = PutOwn(@, name, c.val)], FALSE, "")

\* this.services[name] = config
HomeManagerBuilder_enableService(h, hm, name, config) ==
    LET c == ConfigOrDefault(h, config)
    IN  OutcomeH(hm, [c.h EXCEPT ![hm.services].props = PutOwn(@, name, c.val)], FALSE, "")

\* this.homeConfig[path] = value
HomeManagerBuilder_setHomeConfig(h, hm, path, value) ==
    OutcomeH(hm, [h EXCEPT ![hm.homeConfig].props = PutOwn(@, path, value)], FALSE, "")

HomeManagerBuilder_addModule(h, hm, modulePath) ==
    OutcomeH([hm EXCEPT !.modules = Append(@, modulePath)], h, FALSE, "")

\* current[part], for the keys of the model: none is a member of
\* Object.prototype, Array.prototype or String.prototype.
GetProp(h, current, part) ==
    IF IsObject(current) THEN GetOwn(h[current.a].props, part)
    ELSE IF current.t = "string" /\ IsIndexKey(part) /\ IndexOfKey(part) <= Len(current.v)
    THEN VStr(SubSeq(current.v, IndexOfKey(part), IndexOfKey(part)))
    ELSE VUndefined

\* current[part] = val.  The classes are strict-mode code, in which creating
\* a property on a primitive is a TypeError.
SetProp(h, current, part, val) ==
    IF IsObject(current)
    THEN [h |-> [h EXCEPT ![current.a].props = PutOwn(@, part, val)], threw |-> FALSE]
    ELSE [h |-> h, threw |-> TRUE]

RECURSIVE setNestedValueFrom(_, _, _, _, _)
\* The loop of setNestedValue from index i (1-based), then the final store.
setNestedValueFrom(h, current, parts, i, value) ==
    IF i > Len(parts) - 1
    THEN SetProp(h, current, parts[Len(parts)], value)
    ELSE LET part == parts[i]
         IN  IF ~Truthy(GetProp(h, current, part))
             THEN LET made == SetProp(Append(h, Obj(FALSE, <<>>)), current, part,
                                      VRef(Len(h) + 1))
                  IN  IF made.threw THEN [h |-> h, threw |-> TRUE]
                      ELSE setNestedValueFrom(made.h, VRef(Len(h) + 1), parts, i + 1, value)
             ELSE setNestedValueFrom(h, GetProp(h, current, part), parts, i + 1, value)

\* setNestedValue(obj, path, value)
setNestedValue(h, obj, path, value) ==
    setNestedValueFrom(h, obj, Split(path, "."), 1, value)

\* Object.assign(target, value): the own enumerable properties of value, in
\* order; a string source contributes its characters by index.
RECURSIVE AssignProps(_, _)
AssignProps(props, src) ==
    IF src = <<>> THEN props
    ELSE AssignProps(PutOwn(props, Head(src).k, Head(src).val), Tail(src))

ObjectAssignReplacing(h, target, value) ==
    [h EXCEPT ![target].props = IF IsObject(value) THEN h[value.a].props ELSE <<>>]

ObjectAssign(h, target, value) ==
    LET src == IF IsObject(value) THEN h[value.a].props
               ELSE IF value.t = "string"
               THEN [i \in 1..Len(value.v) |-> Prop(IndexKeys[i], VStr(SubSeq(value.v, i, i)))]
               ELSE <<>>
    IN  [h EXCEPT ![target].props = AssignProps(@, src)]

\* A variant that merges a two-segment store into the mapping already there.
SetUnderMerging(h, rec, parts, value) ==
    LET name == parts[2]
        held == GetOwn(h[rec].props, name)
    IN  IF Len(parts) = 2
        THEN IF IsObject(held) /\ IsObject(value)
             THEN [h |-> ObjectAssign(h, held.a, value), threw |-> FALSE]
             ELSE [h |-> [h EXCEPT ![rec].props = PutOwn(@, name, value)], threw |-> FALSE]
        ELSE LET h1 == IF ~Truthy(GetOwn(h[rec].props, name))
                       THEN [Append(h, Obj(FALSE, <<>>)) EXCEPT
                                ![rec].props = PutOwn(@, name, VRef(Len(h) + 1))]
                       ELSE h
             IN  setNestedValue(h1, GetOwn(h1[rec].props, name),
                                Join(SubSeq(parts, 3, Len(parts)), "."), value)

\* A variant that starts every nested store from a new mapping.
SetUnderFresh(h, rec, parts, value) ==
    LET name == parts[2]
    IN  IF Len(parts) = 2
        THEN [h |-> [h EXCEPT ![rec].props = PutOwn(@, name, value)], threw |-> FALSE]
        ELSE LET h1 == [Append(h, Obj(FALSE, <<>>)) EXCEPT
                           ![rec].props = PutOwn(@, name, VRef(Len(h) + 1))]
             IN  setNestedValue(h1, GetOwn(h1[rec].props, name),
                                Join(SubSeq(parts, 3, Len(parts)), "."), value)

\* The programs / services branch of set: the record at address rec, the
\* path split into parts.
SetUnder(h, rec, parts, value) ==
    LET name == parts[2]
    IN  IF Len(parts) = 2
        THEN [h |-> [h EXCEPT ![rec].props = PutOwn(@, name, value)], threw |-> FALSE]
        ELSE LET h1 == IF ~Truthy(GetOwn(h[rec].props, name))
                       THEN [Append(h, Obj(FALSE, <<>>)) EXCEPT
                                ![rec].props = PutOwn(@, name, VRef(Len(h) + 1))]
                       ELSE h
             IN  setNestedValue(h1, GetOwn(h1[rec].props, name),
                                Join(SubSeq(parts, 3, Len(parts)), "."), value)

\* A variant whose single-segment paths programs and services merge the
\* value into the record, as the single segment home does.
HomeManagerBuilder_setMergingRoots(h, hm, path, value) ==
    LET parts == Split(path, ".")
        r == IF parts[1] = "programs" /\ Len(parts) >= 2
             THEN SetUnder(h, hm.programs, parts, value)
             ELSE IF parts[1] = "services" /\ Len(parts) >= 2
             THEN SetUnder(h, hm.services, parts, value)
             ELSE IF parts[1] = "home" /\ Len(parts) >= 2
             THEN setNestedValue(h, VRef(hm.homeConfig),
                                 Join(SubSeq(parts, 2, Len(parts)), "."), value)
             ELSE IF parts[1] = "home"
             THEN [h |-> ObjectAssign(h, hm.homeConfig, value), threw |-> FALSE]
             ELSE IF parts[1] = "programs"
             THEN [h |-> ObjectAssign(h, hm.programs, value), threw |-> FALSE]
             ELSE IF parts[1] = "services"
             THEN [h |-> ObjectAssign(h, hm.services, value), threw |-> FALSE]
             ELSE [h |-> h, threw |-> FALSE]
    IN  OutcomeH(hm, r.h, r.threw, IF r.threw THEN "TypeError" ELSE "")

\* set(path, value)
HomeManagerBuilder_set(h, hm, path, value) ==
    LET parts == Split(path, ".")
        r == IF parts[1] = "programs" /\ Len(parts) >= 2
             THEN SetUnder(h, hm.programs, parts, value)
             ELSE IF parts[1] = "services" /\ Len(parts) >= 2
             THEN SetUnder(h, hm.services, parts, value)
             ELSE IF parts[1] = "home" /\ Len(parts) >= 2
             THEN setNestedValue(h, VRef(hm.homeConfig),
                                 Join(SubSeq(parts, 2, Len(parts)), "."), value)
             ELSE IF parts[1] = "home"
             THEN [h |-> ObjectAssign(h, hm.homeConfig, value), threw |-> FALSE]
             ELSE [h |-> h, threw |-> FALSE]
    IN  OutcomeH(hm, r.h, r.threw, IF r.threw THEN "TypeError" ELSE "")

RECURSIVE toNixValue(_, _, _)
RECURSIVE toNixItems(_, _, _, _)
\* The joined lines of the entries of an object (keyed) or an array.
toNixItems(h, props, indent, keyed) ==
    IF props = <<>> THEN ""
    ELSE LET line == Indent(indent + 1)
                     \o (IF keyed THEN Head(props).k \o " = " ELSE "")
                     \o toNixValue(h, Head(props).val, indent + 1)
                     \o (IF keyed THEN ";" ELSE "")
         IN  IF Len(props) = 1 THEN line
             ELSE line \o "\n" \o toNixItems(h, Tail(props), indent, keyed)

\* toNixValue(value, indent).  An array is rendered by its elements (the
\* properties with index keys; the arrays of the model have no holes).
toNixValue(h, value, indent) ==
    CASE value.t = "string" -> "\"" \o value.v \o "\""
      [] value.t = "number" -> value.v
      [] value.t = "boolean" -> value.v
      [] value.t = "object" /\ h[value.a].isArray ->
            LET elems == SelectSeq(h[value.a].props, LAMBDA e : IsIndexKey(e.k))
            IN  IF Len(elems) = 0 THEN "[]"
                ELSE "[\n" \o toNixItems(h, elems, indent, FALSE) \o "\n" \o Indent(indent) \o "]"
      [] value.t = "object" /\ ~h[value.a].isArray ->
            LET entries == h[value.a].props
            IN  IF Len(entries) = 0 THEN "{}"
                ELSE "{\n" \o toNixItems(h, entries, indent, TRUE) \o "\n" \o Indent(indent) \o "}"
      [] OTHER -> "null"

\* s.replace(/^{\n/, "")
StripOpen(s) == IF StartsWith(s, "{\n") THEN SubSeq(s, 3, Len(s)) ELSE s

\* s.replace(/\n    }$/, "")
StripClose(s) == IF EndsWith(s, "\n    }") THEN SubSeq(s, 1, Len(s) - 6) ELSE s

\* The blocks of the entries of programs or services.
NamedBlocks(h, kind, props) ==
    [i \in 1..Len(props) |->
        "    " \o kind \o "." \o props[i].k \o " = {\n"
        \o StripClose(StripOpen(toNixValue(h, props[i].val, 2)))
        \o "\n    };"]

\* toNix()
HomeManagerBuilder_toNix(h, hm) ==
    LET homeCfg == h[hm.homeConfig].props
        parts ==
            <<"    home.username = \"" \o hm.username \o "\";">>
            \o (IF Truthy(hm.homeDirectory)
                THEN <<"    home.homeDirectory = \"" \o hm.homeDirectory.v \o "\";">>
                ELSE <<>>)
            \o <<"    home.stateVersion = \"" \o hm.stateVersion \o "\";">>
            \o (IF Len(hm.packages) > 0
                THEN <<"    home.packages = with pkgs; [ "
                       \o Join(Prefixed("pkgs.", hm.packages), " ") \o " ];">>
                ELSE <<>>)
            \o NamedBlocks(h, "programs", h[hm.programs].props)
            \o NamedBlocks(h, "services", h[hm.services].props)
            \o [i \in 1..Len(homeCfg) |->
                   "    home." \o homeCfg[i].k \o " = "
                   \o toNixValue(h, homeCfg[i].val, 1) \o ";"]
    IN  Join(parts, "\n")

\* getUsername()
HomeManagerBuilder_getUsername(hm) == hm.username

----------------------------------------------------------------------------
(* Calls on DevShellBuilder objects.  Each action is one method call on    *)
(* the builder at address b, made through whatever reference the caller    *)
(* holds (a returned handle, a pre-built builder, the callback argument).  *)

\* What `last` records of a call: the method, the receiver's address (0 for
\* the FlakeBuilder), the string arguments, the value argument (a literal),
\* whether the call threw, and the string it returned or the message of the
\* Error it threw.
CallV(op, recv, args, arg, threw, value) ==
    [op |-> op, recv |-> recv, args |-> args, arg |-> arg,
     threw |-> threw, value |-> value]

Call(op, recv, args, threw, value) == CallV(op, recv, args, LUndefined, threw, value)

\* The names of a call, each tagged with the kind of list it was given for.
Tagged(kind, pkgs) == [i \in 1..Len(pkgs) |-> <<kind, pkgs[i]>>]

Shell_withPackages(b, pkgs) ==
    /\ b \in DOMAIN shells
    /\ LET r == DevShellBuilder_withPackages(shells[b], pkgs)
       IN  /\ Len(r.obj.packages) <= MaxPkgs
           /\ shells' = [shells EXCEPT ![b] = r.obj]
           /\ supplied' = [supplied EXCEPT ![b] = @ \o Tagged("base", pkgs)]
           /\ last' = Call("DevShellBuilder.withPackages", b, pkgs, r.threw, r.value)
    /\ UNCHANGED <<homes, heap, flakeVars>>

Shell_withPythonPackages(b, pkgs) ==
    /\ b \in DOMAIN shells
    /\ LET r == DevShellBuilder_withPythonPackages(shells[b], pkgs)
       IN  /\ Len(r.obj.pythonPackages) <= MaxPkgs
           /\ shells' = [shells EXCEPT ![b] = r.obj]
           /\ supplied' = IF r.threw THEN supplied
                          ELSE [supplied EXCEPT ![b] = @ \o Tagged("python", pkgs)]
           /\ last' = Call("DevShellBuilder.withPythonPackages", b, pkgs, r.threw, r.value)
    /\ UNCHANGED <<homes, heap, flakeVars>>

Shell_withSystem(b, system) ==
    /\ b \in DOMAIN shells
    /\ LET r == DevShellBuilder_withSystem(shells[b], system)
       IN  /\ shells' = [shells EXCEPT ![b] = r.obj]
           /\ last' = Call("DevShellBuilder.withSystem", b, <<system>>, r.threw, r.value)
    /\ UNCHANGED <<homes, heap, flakeVars, supplied>>

\* buildAst() called on a builder; the call record holds the system field of
\* the object returned.
Shell_buildAst(b) ==
    /\ b \in DOMAIN shells
    /\ last' = Call("DevShellBuilder.buildAst", b, <<>>, FALSE,
                    DevShellBuilder_buildAst(shells[b]).system)
    /\ UNCHANGED <<shells, homes, heap, flakeVars, supplied>>

Shell_toNix_draining(b) ==
    /\ b \in DOMAIN shells
    /\ last' = Call("DevShellBuilder.toNix", b, <<>>, FALSE, DevShellBuilder_toNix(shells[b]))
    /\ shells' = [shells EXCEPT ![b].packages = <<>>]
    /\ UNCHANGED <<homes, heap, flakeVars, supplied>>

Shell_toNix(b) ==
    /\ b \in DOMAIN shells
    /\ last' = Call("DevShellBuilder.toNix", b, <<>>, FALSE, DevShellBuilder_toNix(shells[b]))
    /\ UNCHANGED <<shells, homes, heap, flakeVars, supplied>>

----------------------------------------------------------------------------
(* Garbage collection.  Addresses are not observable in JavaScript, so     *)
(* after each call the objects no builder reaches are dropped and the rest *)
(* renumbered in the order a traversal from the builders meets them: heaps *)
(* that no program can tell apart are one state.                           *)

\* The addresses an object's properties refer to, in property order.
ChildAddrs(obj) ==
    LET refs == SelectSeq(obj.props, LAMBDA e : IsObject(e.val))
    IN  [i \in 1..Len(refs) |-> refs[i].val.a]

SeqRange(seq) == {seq[i] : i \in DOMAIN seq}

RECURSIVE Traverse(_, _, _)
\* The addresses reachable from those of todo, in depth-first preorder.
Traverse(h, todo, seen) ==
    IF todo = <<>> THEN seen
    ELSE IF Head(todo) \in SeqRange(seen) THEN Traverse(h, Tail(todo), seen)
    ELSE Traverse(h, ChildAddrs(h[Head(todo)]) \o Tail(todo), Append(seen, Head(todo)))

RECURSIVE HomeRoots(_)
\* The addresses the builders hold.
HomeRoots(hs) ==
    IF hs = <<>> THEN <<>>
    ELSE <<Head(hs).programs, Head(hs).services, Head(hs).homeConfig>>
         \o HomeRoots(Tail(hs))

\* The builders hs and the heap h, collected and renumbered.
Collect(hs, h) ==
    LET order == Traverse(h, HomeRoots(hs), <<>>)
        new(a) == CHOOSE i \in DOMAIN order : order[i] = a
        moveVal(val) == IF IsObject(val) THEN VRef(new(val.a)) ELSE val
        moveObj(obj) ==
            [obj EXCEPT !.props = [i \in DOMAIN obj.props |->
                                      Prop(obj.props[i].k, moveVal(obj.props[i].val))]]
    IN  [homes |-> [b \in DOMAIN hs |->
                       [hs[b] EXCEPT !.programs = new(@), !.services = new(@),
                                     !.homeConfig = new(@)]],
         heap |-> [i \in DOMAIN order |-> moveObj(h[order[i]])]]

----------------------------------------------------------------------------
(* Calls on HomeManagerBuilder objects: one method call on the builder at  *)
(* address b.  A value argument is a literal, evaluated before the call.   *)

MaxHeap == 3          \* most objects held as values, beside the builders' records

\* The step of a method call that takes strings only.
HomeStep(b, r, op, args) ==
    /\ LET c == Collect([homes EXCEPT ![b] = r.obj], r.h)
       IN  homes' = c.homes /\ heap' = c.heap
    /\ last' = Call(op, b, args, r.threw, r.value)
    /\ UNCHANGED <<shells, supplied, flakeVars>>

\* The step of a method call that takes a value.
HomeStepV(b, r, op, args, lit) ==
    /\ LET c == Collect([homes EXCEPT ![b] = r.obj], r.h)
       IN  /\ Len(c.heap) <= MaxHeap + 3 * Len(homes)
           /\ homes' = c.homes /\ heap' = c.heap
    /\ last' = CallV(op, b, args, lit, r.threw, r.value)
    /\ UNCHANGED <<shells, supplied, flakeVars>>

Home_withHomeDirectory(b, path) ==
    /\ b \in DOMAIN homes
    /\ HomeStep(b, HomeManagerBuilder_withHomeDirectory(heap, homes[b], path),
                "HomeManagerBuilder.withHomeDirectory", <<path>>)

Home_withStateVersion(b, version) ==
    /\ b \in DOMAIN homes
    /\ HomeStep(b, HomeManagerBuilder_withStateVersion(heap, homes[b], version),
                "HomeManagerBuilder.withStateVersion", <<version>>)

Home_withPackages(b, pkgs) ==
    /\ b \in DOMAIN homes
    /\ Len(homes[b].packages) + Len(pkgs) <= MaxPkgs
    /\ HomeStep(b, HomeManagerBuilder_withPackages(heap, homes[b], pkgs),
                "HomeManagerBuilder.withPackages", pkgs)

Home_enableProgram(b, name, lit) ==
    /\ b \in DOMAIN homes
    /\ LET e == Eval(heap, lit)
       IN  HomeStepV(b, HomeManagerBuilder_enableProgram(e.h, homes[b], name, e.val),
                     "HomeManagerBuilder.enableProgram", <<name>>, lit)

\* enableProgram(name, cfg) where cfg is an object the caller holds and has
\* passed before: the value stored under the name held.  The call record
\* holds both names.
Home_enableProgramHeld(b, name, held) ==
    /\ b \in DOMAIN homes
    /\ IsObject(GetOwn(heap[homes[b].programs].props, held))
    /\ HomeStep(b, HomeManagerBuilder_enableProgram(heap, homes[b], name,
                                                    GetOwn(heap[homes[b].programs].props, held)),
                "HomeManagerBuilder.enableProgram", <<name, held>>)

Home_enableService(b, name, lit) ==
    /\ b \in DOMAIN homes
    /\ LET e == Eval(heap, lit)
       IN  HomeStepV(b, HomeManagerBuilder_enableService(e.h, homes[b], name, e.val),
                     "HomeManagerBuilder.enableService", <<name>>, lit)

Home_setHomeConfig(b, path, lit) ==
    /\ b \in DOMAIN homes
    /\ LET e == Eval(heap, lit)
       IN  HomeStepV(b, HomeManagerBuilder_setHomeConfig(e.h, homes[b], path, e.val),
                     "HomeManagerBuilder.setHomeConfig", <<path>>, lit)

Home_set(b, path, lit) ==
    /\ b \in DOMAIN homes
    /\ LET e == Eval(heap, lit)
       IN  HomeStepV(b, HomeManagerBuilder_set(e.h, homes[b], path, e.val),
                     "HomeManagerBuilder.set", <<path>>, lit)

Home_addModule(b, modulePath) ==
    /\ b \in DOMAIN homes
    /\ Len(homes[b].modules) < MaxPkgs
    /\ HomeStep(b, HomeManagerBuilder_addModule(heap, homes[b], modulePath),
                "HomeManagerBuilder.addModule", <<modulePath>>)

Home_toNix(b) ==
    /\ b \in DOMAIN homes
    /\ last' = Call("HomeManagerBuilder.toNix", b, <<>>, FALSE,
                    HomeManagerBuilder_toNix(heap, homes[b]))
    /\ UNCHANGED <<shells, homes, heap, flakeVars, supplied>>

Home_getUsername(b) ==
    /\ b \in DOMAIN homes
    /\ last' = Call("HomeManagerBuilder.getUsername", b, <<>>, FALSE,
                    HomeManagerBuilder_getUsername(homes[b]))
    /\ UNCHANGED <<shells, homes, heap, flakeVars, supplied>>

----------------------------------------------------------------------------
(* FlakeBuilder.                                                           *)

MaxBuilders == 2      \* most DevShellBuilder and HomeManagerBuilder objects created
MaxInputs == 3        \* most withInput calls made

\* The line of one input.
InputLine(e) == "    " \o e.k \o ".url = \"" \o e.val.v \o "\";"

\* A variant that lists the module paths after the nested block.
HomeConfigBlockModulesLast(h, hm) ==
    LET modules == hm.modules
        modulesList == IF Len(modules) > 0
                       THEN Join(Prefixed("        ", modules), "\n") \o "\n"
                       ELSE ""
    IN  "      " \o hm.username \o " = home-manager.lib.homeManagerConfiguration {\n"
        \o "        pkgs = nixpkgs.legacyPackages.x86_64-linux;\n"
        \o "        modules = [\n"
        \o "          {\n"
        \o HomeManagerBuilder_toNix(h, hm) \o "\n"
        \o "          }\n"
        \o modulesList
        \o "        ];\n"
        \o "      };"

\* The block of one home configuration.
HomeConfigBlock(h, hm) ==
    LET modules == hm.modules
        modulesList == IF Len(modules) > 0
                       THEN Join(Prefixed("        ", modules), "\n") \o "\n"
                       ELSE ""
    IN  "      " \o hm.username \o " = home-manager.lib.homeManagerConfiguration {\n"
        \o "        pkgs = nixpkgs.legacyPackages.x86_64-linux;\n"
        \o "        modules = [\n"
        \o modulesList \o "          {\n"
        \o HomeManagerBuilder_toNix(h, hm) \o "\n"
        \o "          }\n"
        \o "        ];\n"
        \o "      };"

OutputsSectionAlwaysHomeManager(hasDevShells, hasHomeConfigs, shellsText, homeConfigs) ==
    IF hasDevShells
    THEN "  outputs = { self, nixpkgs, home-manager }: let\n"
         \o "    pkgs = import nixpkgs { system = \"x86_64-linux\"; };\n"
         \o "  in {\n"
         \o "    devShells.x86_64-linux = {\n"
         \o shellsText \o "\n"
         \o "    };\n"
         \o "  };"
    ELSE "  outputs = { self, nixpkgs, home-manager }: {};"

OutputsSectionEmptyBlocks(hasDevShells, hasHomeConfigs, shellsText, homeConfigs) ==
    "  outputs = { self, nixpkgs }: let\n"
    \o "    pkgs = import nixpkgs { system = \"x86_64-linux\"; };\n"
    \o "  in {\n"
    \o "    devShells.x86_64-linux = {\n"
    \o shellsText \o "\n"
    \o "    };\n"
    \o "  };"

\* The outputs section, from the rendered environments and profiles.
OutputsSection(hasDevShells, hasHomeConfigs, shellsText, homeConfigs) ==
    IF hasDevShells /\ hasHomeConfigs
    THEN "  outputs = { self, nixpkgs, home-manager }: let\n"
         \o "    pkgs = import nixpkgs { system = \"x86_64-linux\"; };\n"
         \o "  in {\n"
         \o "    devShells.x86_64-linux = {\n"
         \o shellsText \o "\n"
         \o "    };\n"
         \o "\n"
         \o "    homeConfigurations = {\n"
         \o homeConfigs \o "\n"
         \o "    };\n"
         \o "  };"
    ELSE IF hasDevShells
    THEN "  outputs = { self, nixpkgs }: let\n"
         \o "    pkgs = import nixpkgs { system = \"x86_64-linux\"; };\n"
         \o "  in {\n"
         \o "    devShells.x86_64-linux = {\n"
         \o shellsText \o "\n"
         \o "    };\n"
         \o "  };"
    ELSE IF hasHomeConfigs
    THEN "  outputs = { self, nixpkgs, home-manager }:\n"
         \o "  {\n"
         \o "    homeConfigurations = {\n"
         \o homeConfigs \o "\n"
         \o "    };\n"
         \o "  };"
    ELSE "  outputs = { self, nixpkgs }: {};"

ShellOfAsCreated(sh, ref) == DevShellBuilder_new(sh[ref].name)

\* The environment a reference of devShells renders: the builder it points to.
ShellOf(sh, ref) == sh[ref]

\* The profile a reference of homeConfigurations renders.
HomeOf(hs, ref) == hs[ref]

\* A variant that writes an input line for home-manager when a profile is
\* attached and no input of that name is registered.
FlakeBuilder_buildDefaultingInputs(ins, desc, dsh, hcs, sh, hs, h) ==
    LET all == IF Len(hcs) > 0 /\ PropPos(ins, "home-manager") = 0
               THEN Append(ins, Prop("home-manager",
                                     VStr("github:nix-community/home-manager")))
               ELSE ins
        inputLines == Join([i \in 1..Len(all) |-> InputLine(all[i])], "\n")
        shellsText == Join([i \in 1..Len(dsh) |-> DevShellBuilder_toNix(ShellOf(sh, dsh[i]))],
                           "\n")
        homeConfigs == Join([i \in 1..Len(hcs) |-> HomeConfigBlock(h, HomeOf(hs, hcs[i]))],
                            "\n")
    IN  "{\n"
        \o "  description = \"" \o desc \o "\";\n"
        \o "  inputs = {\n"
        \o inputLines \o "\n"
        \o "  };\n"
        \o "\n"
        \o OutputsSection(Len(dsh) > 0, Len(hcs) > 0, shellsText, homeConfigs) \o "\n"
        \o "}"

\* build(): the text of the flake, from the fields of the FlakeBuilder and
\* the builders its lists refer to.
FlakeBuilder_build(ins, desc, dsh, hcs, sh, hs, h) ==
    LET inputLines == Join([i \in 1..Len(ins) |-> InputLine(ins[i])], "\n")
        shellsText == Join([i \in 1..Len(dsh) |-> DevShellBuilder_toNix(ShellOf(sh, dsh[i]))],
                           "\n")
        homeConfigs == Join([i \in 1..Len(hcs) |-> HomeConfigBlock(h, HomeOf(hs, hcs[i]))],
                            "\n")
    IN  "{\n"
        \o "  description = \"" \o desc \o "\";\n"
        \o "  inputs = {\n"
        \o inputLines \o "\n"
        \o "  };\n"
        \o "\n"
        \o OutputsSection(Len(dsh) > 0, Len(hcs) > 0, shellsText, homeConfigs) \o "\n"
        \o "}"

RECURSIVE RunShellConfig(_, _, _)
\* A configurator callback fn(b) of addDevShell: the calls of steps made on
\* the builder in turn, up to the first that throws.  Each step is
\* <<method, names>>; hist is the builder's history of names supplied.
RunShellConfig(sh, hist, steps) ==
    IF steps = <<>> THEN [obj |-> sh, hist |-> hist, threw |-> FALSE, value |-> ""]
    ELSE LET st == Head(steps)
             r == IF st[1] = "withPackages"
                  THEN DevShellBuilder_withPackages(sh, st[2])
                  ELSE DevShellBuilder_withPythonPackages(sh, st[2])
             kind == IF st[1] = "withPackages" THEN "base" ELSE "python"
         IN  IF r.threw
             THEN [obj |-> r.obj, hist |-> hist, threw |-> TRUE, value |-> r.value]
             ELSE RunShellConfig(r.obj, hist \o Tagged(kind, st[2]), Tail(steps))

RECURSIVE RunHomeConfig(_, _, _)
\* A configurator callback fn(b) of addHomeConfiguration.  Each step is
\* <<method, string argument, literal>>.
RunHomeConfig(h, hm, steps) ==
    IF steps = <<>> THEN OutcomeH(hm, h, FALSE, "")
    ELSE LET st == Head(steps)
             e == Eval(h, st[3])
             r == IF st[1] = "enableProgram"
                  THEN HomeManagerBuilder_enableProgram(e.h, hm, st[2], e.val)
                  ELSE IF st[1] = "set"
                  THEN HomeManagerBuilder_set(e.h, hm, st[2], e.val)
                  ELSE HomeManagerBuilder_addModule(h, hm, st[2])
         IN  IF r.threw THEN r ELSE RunHomeConfig(r.h, r.obj, Tail(steps))

BuildersCreated == Len(shells) + Len(homes)

\* new DevShellBuilder(name), standalone
NewDevShell(name) ==
    /\ BuildersCreated < MaxBuilders
    /\ shells' = Append(shells, DevShellBuilder_new(name))
    /\ supplied' = Append(supplied, <<>>)
    /\ last' = Call("new DevShellBuilder", Len(shells) + 1, <<name>>, FALSE, "")
    /\ UNCHANGED <<homes, heap, flakeVars>>

\* new HomeManagerBuilder(username), standalone
NewHomeManagerBuilder(username) ==
    /\ BuildersCreated < MaxBuilders
    /\ LET n == HomeManagerBuilder_new(heap, username)
       IN  homes' = Append(homes, n.obj) /\ heap' = n.h
    /\ last' = Call("new HomeManagerBuilder", Len(homes) + 1, <<username>>, FALSE, "")
    /\ UNCHANGED <<shells, supplied, flakeVars>>

withInputAppend(name, url) ==
    /\ Len(registered) < MaxInputs
    /\ inputs' = Append(inputs, Prop(name, VStr(url)))
    /\ registered' = Append(registered, <<name, url>>)
    /\ last' = Call("withInput", 0, <<name, url>>, FALSE, "")
    /\ UNCHANGED <<shells, homes, heap, supplied, description, devShells,
                   homeConfigurations, attached, files, child>>

\* withInput(name, url): this.inputs[name] = url
withInput(name, url) ==
    /\ Len(registered) < MaxInputs
    /\ inputs' = PutOwn(inputs, name, VStr(url))
    /\ registered' = Append(registered, <<name, url>>)
    /\ last' = Call("withInput", 0, <<name, url>>, FALSE, "")
    /\ UNCHANGED <<shells, homes, heap, supplied, description, devShells,
                   homeConfigurations, attached, files, child>>

withDescription(desc) ==
    /\ description' = desc
    /\ last' = Call("withDescription", 0, <<desc>>, FALSE, "")
    /\ UNCHANGED <<shells, homes, heap, supplied, inputs, devShells,
                   homeConfigurations, attached,
                   registered, files, child>>

\* addDevShell(name): the new builder is pushed and returned as a handle.
addDevShell(name) ==
    /\ BuildersCreated < MaxBuilders
    /\ shells' = Append(shells, DevShellBuilder_new(name))
    /\ supplied' = Append(supplied, <<>>)
    /\ devShells' = Append(devShells, Len(shells) + 1)
    /\ attached' = Append(attached, <<"shell", Len(shells) + 1,
                                      DevShellBuilder_toNix(DevShellBuilder_new(name))>>)
    /\ last' = Call("addDevShell", 0, <<name>>, FALSE, "")
    /\ UNCHANGED <<homes, heap, inputs, description, homeConfigurations, registered, files, child>>

\* A variant that runs fn(b) first and pushes the builder after it.
addDevShellWithConfiguredFirst(name, steps) ==
    /\ BuildersCreated < MaxBuilders
    /\ LET r == RunShellConfig(DevShellBuilder_new(name), <<>>, steps)
       IN  /\ shells' = Append(shells, r.obj)
           /\ supplied' = Append(supplied, r.hist)
           /\ last' = Call("addDevShell(fn)", 0, <<name>>, r.threw, r.value)
           /\ devShells' = IF r.threw THEN devShells ELSE Append(devShells, Len(shells) + 1)
           /\ attached' = IF r.threw THEN attached
                          ELSE Append(attached,
                                      <<"shell", Len(shells) + 1,
                                        DevShellBuilder_toNix(DevShellBuilder_new(name))>>)
    /\ UNCHANGED <<homes, heap, inputs, description, homeConfigurations, registered, files, child>>

\* addDevShell(name, fn): the new builder is pushed, then fn(b) runs.
addDevShellWith(name, steps) ==
    /\ BuildersCreated < MaxBuilders
    /\ LET r == RunShellConfig(DevShellBuilder_new(name), <<>>, steps)
       IN  /\ shells' = Append(shells, r.obj)
           /\ supplied' = Append(supplied, r.hist)
           /\ last' = Call("addDevShell(fn)", 0, <<name>>, r.threw, r.value)
    /\ devShells' = Append(devShells, Len(shells) + 1)
    /\ attached' = Append(attached, <<"shell", Len(shells) + 1,
                                      DevShellBuilder_toNix(DevShellBuilder_new(name))>>)
    /\ UNCHANGED <<homes, heap, inputs, description, homeConfigurations, registered, files, child>>

\* addDevShellBuilder(builder), of a builder not attached before
addDevShellBuilder(b) ==
    /\ b \in DOMAIN shells
    /\ \A i \in DOMAIN devShells : devShells[i] /= b
    /\ devShells' = Append(devShells, b)
    /\ attached' = Append(attached, <<"shell", b, DevShellBuilder_toNix(shells[b])>>)
    /\ last' = Call("addDevShellBuilder", 0, <<>>, FALSE, "")
    /\ UNCHANGED <<shells, supplied, homes, heap, inputs, description,
                   homeConfigurations, registered, files, child>>

\* A variant that ignores a builder that is attached already.
addDevShellBuilderOnce(b) ==
    /\ b \in DOMAIN shells
    /\ \E i \in DOMAIN devShells : devShells[i] = b
    /\ Len(devShells) < MaxBuilders
    /\ attached' = Append(attached, <<"shell", b, DevShellBuilder_toNix(shells[b])>>)
    /\ last' = Call("addDevShellBuilder", 0, <<>>, FALSE, "")
    /\ UNCHANGED <<shells, supplied, homes, heap, inputs, description, devShells,
                   homeConfigurations, registered, files, child>>

\* addDevShellBuilder(builder), of a builder that is attached already: it is
\* pushed again.
addDevShellBuilderAgain(b) ==
    /\ b \in DOMAIN shells
    /\ \E i \in DOMAIN devShells : devShells[i] = b
    /\ Len(devShells) < MaxBuilders
    /\ devShells' = Append(devShells, b)
    /\ attached' = Append(attached, <<"shell", b, DevShellBuilder_toNix(shells[b])>>)
    /\ last' = Call("addDevShellBuilder", 0, <<>>, FALSE, "")
    /\ UNCHANGED <<shells, supplied, homes, heap, inputs, description,
                   homeConfigurations, registered, files, child>>

\* addHomeConfiguration(username): pushed and returned as a handle.
addHomeConfiguration(username) ==
    /\ BuildersCreated < MaxBuilders
    /\ LET n == HomeManagerBuilder_new(heap, username)
       IN  homes' = Append(homes, n.obj) /\ heap' = n.h
    /\ homeConfigurations' = Append(homeConfigurations, Len(homes) + 1)
    /\ attached' = LET n == HomeManagerBuilder_new(heap, username)
                   IN  Append(attached, <<"home", Len(homes) + 1,
                                          HomeManagerBuilder_toNix(n.h, n.obj)>>)
    /\ last' = Call("addHomeConfiguration", 0, <<username>>, FALSE, "")
    /\ UNCHANGED <<shells, supplied, inputs, description, devShells, registered, files, child>>

\* addHomeConfiguration(username, fn): pushed, then fn(b) runs.
addHomeConfigurationWith(username, steps) ==
    /\ BuildersCreated < MaxBuilders
    /\ LET n == HomeManagerBuilder_new(heap, username)
           r == RunHomeConfig(n.h, n.obj, steps)
           c == Collect(Append(homes, r.obj), r.h)
       IN  /\ Len(c.heap) <= MaxHeap + 3 * (Len(homes) + 1)
           /\ homes' = c.homes /\ heap' = c.heap
           /\ last' = Call("addHomeConfiguration(fn)", 0, <<username>>, r.threw, r.value)
    /\ homeConfigurations' = Append(homeConfigurations, Len(homes) + 1)
    /\ attached' = LET n == HomeManagerBuilder_new(heap, username)
                   IN  Append(attached, <<"home", Len(homes) + 1,
                                          HomeManagerBuilder_toNix(n.h, n.obj)>>)
    /\ UNCHANGED <<shells, supplied, inputs, description, devShells, registered, files, child>>

\* addHomeConfigurationBuilder(builder), of a builder attached before or not
addHomeConfigurationBuilder(b) ==
    /\ b \in DOMAIN homes
    /\ Len(homeConfigurations) < MaxBuilders
    /\ homeConfigurations' = Append(homeConfigurations, b)
    /\ attached' = Append(attached, <<"home", b, HomeManagerBuilder_toNix(heap, homes[b])>>)
    /\ last' = Call("addHomeConfigurationBuilder", 0, <<>>, FALSE, "")
    /\ UNCHANGED <<shells, supplied, homes, heap, inputs, description, devShells,
                   registered, files, child>>

buildMoved ==
    /\ last' = Call("build", 0, <<>>, FALSE,
                    FlakeBuilder_build(inputs, description, devShells, homeConfigurations,
                                       shells, homes, heap))
    /\ devShells' = <<>>
    /\ homeConfigurations' = <<>>
    /\ UNCHANGED <<shells, homes, heap, supplied, inputs, description, attached,
                   registered, files, child>>

\* build(): assigns no field of any builder.
build ==
    /\ last' = Call("build", 0, <<>>, FALSE,
                    FlakeBuilder_build(inputs, description, devShells, homeConfigurations,
                                       shells, homes, heap))
    /\ UNCHANGED <<shells, homes, heap, supplied, flakeVars>>

----------------------------------------------------------------------------
(* The command line: initTemplate and buildFlake, on a file system.  A     *)
(* process that calls process.exit(1) stops there.                         *)

RECURSIVE LastIndexFrom(_, _, _)
\* The greatest position up to i at which p occurs in s, 0 when there is none.
LastIndexFrom(s, p, i) ==
    IF i < 1 THEN 0
    ELSE IF SubSeq(s, i, i + Len(p) - 1) = p THEN i
    ELSE LastIndexFrom(s, p, i - 1)

LastIndexOf(s, p) == LastIndexFrom(s, p, Len(s) - Len(p) + 1)

\* The working directory of the process.
Cwd == "/w"

RECURSIVE NormalSegments(_, _)
\* The segments of a path that normalisation keeps, after the kept segments
\* acc: empty segments and "." are dropped, ".." drops the segment before it.
NormalSegments(segs, acc) ==
    IF segs = <<>> THEN acc
    ELSE LET seg == Head(segs)
         IN  NormalSegments(Tail(segs),
                            IF seg = "" \/ seg = "." THEN acc
                            ELSE IF seg = ".."
                            THEN (IF acc = <<>> THEN acc ELSE SubSeq(acc, 1, Len(acc) - 1))
                            ELSE Append(acc, seg))

\* path.resolve(process.cwd(), p): p from the root when it is absolute, from
\* the working directory otherwise, normalised, without a trailing slash.
resolve(p) ==
    "/" \o Join(NormalSegments(Split(IF StartsWith(p, "/") THEN p ELSE Cwd \o "/" \o p, "/"),
                               <<>>), "/")

\* path.dirname(p) of an absolute path
dirname(p) ==
    LET i == LastIndexOf(p, "/") IN IF i <= 1 THEN "/" ELSE SubSeq(p, 1, i - 1)

\* The last component of a path.
LastComponent(p) == SubSeq(p, LastIndexOf(p, "/") + 1, Len(p))

\* path.extname(p): from the last dot of the last component on, unless that
\* dot starts the component.
extname(p) ==
    LET base == LastComponent(p)
        i == LastIndexOf(base, ".")
    IN  IF i <= 1 THEN "" ELSE SubSeq(base, i, Len(base))

\* path.basename(p, ext)
basename(p, ext) ==
    LET base == LastComponent(p)
    IN  IF ext /= "" /\ base /= ext /\ EndsWith(base, ext)
        THEN SubSeq(base, 1, Len(base) - Len(ext))
        ELSE base

\* path.join(dir, name) of a directory and a file name
join(dir, name) == IF dir = "/" THEN "/" \o name ELSE dir \o "/" \o name

\* The characters String.prototype.trim strips (the WhiteSpace and
\* LineTerminator productions of ECMAScript) that a string of this module
\* can hold: space, TAB, LF, CR, FF, VT (U+000B), U+00A0, U+1680 and
\* U+FEFF.  The others (U+2000 to U+200A, U+2028, U+2029, U+202F, U+205F,
\* U+3000) cannot be written in a string here, so no text of the model
\* holds them.
WhiteSpace == {" ", "\t", "\n", "\r", "\f", "", " ", " ", "﻿"}

RECURSIVE trimStart(_)
trimStart(s) ==
    IF s /= "" /\ SubSeq(s, 1, 1) \in WhiteSpace THEN trimStart(SubSeq(s, 2, Len(s))) ELSE s

RECURSIVE trimEnd(_)
trimEnd(s) ==
    IF s /= "" /\ SubSeq(s, Len(s), Len(s)) \in WhiteSpace
    THEN trimEnd(SubSeq(s, 1, Len(s) - 1)) ELSE s

\* String.prototype.trim
trim(s) == trimEnd(trimStart(s))

\* The file system is the set of its files, <<absolute path, content>>.  Its
\* directories are the root, the working directory and the directories
\* above them and above the files.
PathOf(names) == "/" \o Join(names, "/")

IsDirectory(fs, path) ==
    \/ path = "/"
    \/ path = Cwd
    \/ StartsWith(Cwd, path \o "/")
    \/ \E f \in fs : StartsWith(f[1], path \o "/")

IsFile(fs, path) == \E f \in fs : f[1] = path

KindOf(fs, path) ==
    IF IsDirectory(fs, path) THEN "dir" ELSE IF IsFile(fs, path) THEN "file" ELSE "none"

RECURSIVE Walk(_, _, _)
\* Path resolution by the operating system, from the directory or file
\* named by cur through the segments segs: every segment, "." and ".."
\* included, is looked up in a directory, so a segment after a file fails
\* with ENOTDIR and one after a missing name with ENOENT.
Walk(fs, segs, cur) ==
    IF segs = <<>> THEN [err |-> "", names |-> cur]
    ELSE LET seg == Head(segs)
             kind == KindOf(fs, PathOf(cur))
         IN  IF seg = "" THEN Walk(fs, Tail(segs), cur)
             ELSE IF kind = "file" THEN [err |-> "ENOTDIR", names |-> cur]
             ELSE IF kind = "none" THEN [err |-> "ENOENT", names |-> cur]
             ELSE Walk(fs, Tail(segs),
                       IF seg = "." THEN cur
                       ELSE IF seg = ".."
                       THEN (IF cur = <<>> THEN cur ELSE SubSeq(cur, 1, Len(cur) - 1))
                       ELSE Append(cur, seg))

\* What a path names: the error of the walk, the absolute path reached, its
\* kind ("dir", "file" or "none"), and whether the path ends in a slash.
Lookup(fs, p) ==
    LET w == Walk(fs, Split(p, "/"),
                  IF StartsWith(p, "/") THEN <<>> ELSE NormalSegments(Split(Cwd, "/"), <<>>))
    IN  [err |-> IF p = "" THEN "ENOENT" ELSE w.err,
         path |-> PathOf(w.names),
         kind |-> KindOf(fs, PathOf(w.names)),
         slash |-> EndsWith(p, "/")]

\* fs.existsSync: true for a file and for a directory.
existsSync(fs, p) ==
    LET l == Lookup(fs, p)
    IN  l.err = "" /\ l.kind /= "none" /\ (l.slash => l.kind = "dir")

\* fs.writeFileSync: the file system after it and the code of the error
\* thrown, "" when the file was written.  It throws, and writes nothing, on
\* a path that names a directory or ends in a slash (EISDIR) and on a path
\* through a file (ENOTDIR) or through a missing directory (ENOENT).
writeFileSync(fs, p, content) ==
    LET l == Lookup(fs, p)
        throws == IF l.err /= "" THEN l.err
                  ELSE IF l.slash \/ l.kind = "dir" THEN "EISDIR"
                  ELSE ""
    IN  [files |-> IF throws = "" THEN {f \in fs : f[1] /= l.path} \cup {<<l.path, content>>}
                   ELSE fs,
         throws |-> throws]

\* The message of the Error writeFileSync throws.
ErrnoMessage(code, p) ==
    code \o ": "
    \o (IF code = "EISDIR" THEN "illegal operation on a directory"
        ELSE IF code = "ENOTDIR" THEN "not a directory"
        ELSE "no such file or directory")
    \o ", open '" \o p \o "'"

\* The starter script initTemplate writes.
Template ==
    "import { FlakeBuilder } from \"nixts\";\n"
    \o "\n"
    \o "// Create a basic flake with a development shell\n"
    \o "const flake = new FlakeBuilder()\n"
    \o "  .withDescription(\"My Nix flake built with nixts\")\n"
    \o "  .withInput(\"nixpkgs\", \"github:NixOS/nixpkgs/nixos-24.05\")\n"
    \o "  .addDevShell(\"default\", (shell) => {\n"
    \o "    shell\n"
    \o "      .withPackages([\n"
    \o "        \"git\",\n"
    \o "        \"nodejs\",\n"
    \o "        \"python3\",\n"
    \o "      ])\n"
    \o "      .withPythonPackages([\n"
    \o "        \"numpy\",\n"
    \o "        \"pandas\",\n"
    \o "      ]);\n"
    \o "  })\n"
    \o "  .build();\n"
    \o "\n"
    \o "// Output the generated flake\n"
    \o "console.log(flake);\n"

\* The end of a command: the file system it leaves, its exit code and the
\* first line it wrote to stderr.
Exit(fs, code, stderr) == [files |-> fs, code |-> code, stderr |-> stderr]

initTemplateOverwriting(fs, outputFile) ==
    LET fileName == IF Truthy(outputFile) THEN outputFile.v ELSE "flake.ts"
        resolvedOutput == resolve(fileName)
        w == writeFileSync(fs, resolvedOutput, Template)
    IN  IF w.throws /= ""
        THEN Exit(fs, "1", "Unexpected error: Error: " \o ErrnoMessage(w.throws, resolvedOutput))
        ELSE Exit(w.files, "0", "")

\* initTemplate(outputFile), outputFile a string or undefined, called by
\* main: an Error thrown by writeFileSync is caught by main().catch.
initTemplate(fs, outputFile) ==
    LET fileName == IF Truthy(outputFile) THEN outputFile.v ELSE "flake.ts"
        resolvedOutput == resolve(fileName)
        w == writeFileSync(fs, resolvedOutput, Template)
    IN  IF existsSync(fs, resolvedOutput)
        THEN Exit(fs, "1", "Error: File already exists: " \o fileName)
        ELSE IF w.throws /= ""
        THEN Exit(fs, "1", "Unexpected error: Error: " \o ErrnoMessage(w.throws, resolvedOutput))
        ELSE Exit(w.files, "0", "")

NoOutput ==
    "Error: No output generated. Make sure your TypeScript file logs the flake output "
    \o "using console.log()"

\* nixts init [file]: the call record holds the argument, whether the exit
\* code was non-zero, and the line written to stderr.
CliInit(outputFile) ==
    /\ LET e == initTemplate(files, Val(outputFile.t, outputFile.v, 0))
       IN  /\ files' = e.files
           /\ last' = CallV("nixts init", 0, <<>>, outputFile, e.code /= "0", e.stderr)
    /\ UNCHANGED <<shells, homes, heap, supplied, inputs, description, devShells,
                   homeConfigurations, attached, registered, child>>

----------------------------------------------------------------------------
(* nixts build, event by event.  One behaviour is one CLI process: main    *)
(* calls buildFlake once, which spawns the child and awaits the promise    *)
(* of executeTypeScriptFile; the handlers registered on the child run as   *)
(* its events arrive, and the rest of buildFlake runs when the promise     *)
(* settles, before the next event is delivered.                            *)

MaxEvents == 4        \* most child events delivered to one CLI process

\* The CLI process.  phase: "idle" before the command, "awaiting" while
\* buildFlake awaits the promise, "returned" after buildFlake has returned
\* (the process is still alive), "exited" after process.exit(1).  promise:
\* "none", "pending", "resolved" or "rejected", and value what it settled
\* with (the output, or the message of the Error).  stdout and stderr are
\* the two buffers of executeTypeScriptFile.  History: seen, the events
\* delivered, in arrival order, and writes, the files writeFileSync wrote.
Child(phase, inputFile, outputFile, promise, value, stdout, stderr, seen, writes) ==
    [phase |-> phase, inputFile |-> inputFile, outputFile |-> outputFile,
     promise |-> promise, value |-> value, stdout |-> stdout, stderr |-> stderr,
     seen |-> seen, writes |-> writes]

NoChild == Child("idle", "", VUndefined, "none", "", "", "", <<>>, 0)

\* buildFlake up to the await: the refusals, or "" when the child is spawned.
buildFlakeRefusal(fs, inputFile) ==
    LET resolvedInput == resolve(inputFile)
        ext == extname(resolvedInput)
    IN  IF ~existsSync(fs, resolvedInput)
        THEN "Error: Input file not found: " \o inputFile
        ELSE IF ext /= ".ts" /\ ext /= ".tsx"
        THEN "Error: Input file must be a TypeScript file (.ts or .tsx)"
        ELSE ""

\* The path buildFlake hands to writeFileSync: the -o value as given, or
\* the input file's path with .nix for its extension.
resolvedOutputOf(inputFile, outputFile) ==
    LET resolvedInput == resolve(inputFile)
    IN  IF Truthy(outputFile) THEN outputFile.v
        ELSE join(dirname(resolvedInput),
                  basename(resolvedInput, extname(resolvedInput)) \o ".nix")

\* resolve(v) or reject(v) called on the promise: a settled promise stays
\* as it is.
Settle(c, how, v) ==
    IF c.promise = "pending" THEN [c EXCEPT !.promise = how, !.value = v] ELSE c

\* The "close" handler.
onClose(c, code) ==
    IF code /= "0"
    THEN Settle(c, "rejected", "Execution failed with code " \o code \o ":\n" \o c.stderr)
    ELSE Settle(c, "resolved", trim(c.stdout))

\* The "error" handler.
onError(c, message) ==
    Settle(c, "rejected", "Failed to execute TypeScript file: " \o message)

\* A variant that writes the output before it tests it.
buildFlakeResumeWritingFirst(fs, c) ==
    LET w == writeFileSync(fs, resolvedOutputOf(c.inputFile, c.outputFile), c.value)
        n == IF w.throws = "" THEN 1 ELSE 0
    IN  IF c.promise = "rejected"
        THEN [child |-> [c EXCEPT !.phase = "exited"], files |-> fs,
              stderr |-> "Error building flake:"]
        ELSE IF c.value = ""
        THEN [child |-> [c EXCEPT !.phase = "exited", !.writes = @ + n],
              files |-> w.files, stderr |-> NoOutput]
        ELSE IF w.throws /= ""
        THEN [child |-> [c EXCEPT !.phase = "exited"], files |-> fs,
              stderr |-> "Error building flake:"]
        ELSE [child |-> [c EXCEPT !.phase = "returned", !.writes = @ + 1],
              files |-> w.files, stderr |-> ""]

\* buildFlake from the await on, run once, when the promise settles: the
\* process after it, the file system, and the line written to stderr.  The
\* catch block handles the rejection and an Error thrown by writeFileSync
\* alike.
buildFlakeResume(fs, c) ==
    LET w == writeFileSync(fs, resolvedOutputOf(c.inputFile, c.outputFile), c.value)
    IN  IF c.promise = "rejected"
        THEN [child |-> [c EXCEPT !.phase = "exited"], files |-> fs,
              stderr |-> "Error building flake:"]
        ELSE IF c.value = ""
        THEN [child |-> [c EXCEPT !.phase = "exited"], files |-> fs, stderr |-> NoOutput]
        ELSE IF w.throws /= ""
        THEN [child |-> [c EXCEPT !.phase = "exited"], files |-> fs,
              stderr |-> "Error building flake:"]
        ELSE [child |-> [c EXCEPT !.phase = "returned", !.writes = @ + 1],
              files |-> w.files, stderr |-> ""]

\* The build case of main before it calls buildFlake: the refusals, or ""
\* when buildFlake is called.  inputFile is "" when no file was named.
mainRefusal(inputFile, watch) ==
    IF inputFile = "" THEN "Error: No input file specified"
    ELSE IF watch THEN "Error: Watch mode is not yet implemented"
    ELSE ""

\* nixts build [file] [-o output] [--watch], up to the await.
CliBuildSpawn(inputFile, outputFile, watch) ==
    /\ child.phase = "idle"
    /\ LET m == mainRefusal(inputFile, watch)
           refusal == IF m /= "" THEN m ELSE buildFlakeRefusal(files, inputFile)
           out == Val(outputFile.t, outputFile.v, 0)
       IN  /\ child' = IF refusal /= ""
                       THEN Child("exited", inputFile, out, "none", "", "", "", <<>>, 0)
                       ELSE Child("awaiting", inputFile, out, "pending", "", "", "", <<>>, 0)
           /\ last' = CallV("buildFlake", 0,
                            <<inputFile>> \o (IF watch THEN <<"--watch">> ELSE <<>>),
                            outputFile, refusal /= "", refusal)
    /\ UNCHANGED <<shells, homes, heap, supplied, inputs, description, devShells,
                   homeConfigurations, attached, registered, files>>

\* A child event can be delivered while the process is alive.
Alive == child.phase \in {"awaiting", "returned"} /\ Len(child.seen) < MaxEvents

\* The streams of the child are open until its close event.
StreamsOpen == \A i \in DOMAIN child.seen : child.seen[i][1] /= "close"

\* The step of an event whose handler has made the process c: if the promise
\* has settled in this handler, the rest of buildFlake runs.
Deliver(event, c) ==
    /\ LET d == [c EXCEPT !.seen = Append(@, event)]
           r == IF child.promise = "pending" /\ d.promise /= "pending"
                THEN buildFlakeResume(files, d)
                ELSE [child |-> d, files |-> files, stderr |-> ""]
       IN  /\ child' = r.child
           /\ files' = r.files
           /\ last' = Call("child " \o event[1], 0, <<event[2]>>, r.stderr /= "", r.stderr)
    /\ UNCHANGED <<shells, homes, heap, supplied, inputs, description, devShells,
                   homeConfigurations, attached, registered>>

\* stdout "data": stdout += data.toString()
ChildStdout(data) ==
    /\ Alive /\ StreamsOpen
    /\ Deliver(<<"stdout", data>>, [child EXCEPT !.stdout = @ \o data])

\* stderr "data": stderr += data.toString()
ChildStderr(data) ==
    /\ Alive /\ StreamsOpen
    /\ Deliver(<<"stderr", data>>, [child EXCEPT !.stderr = @ \o data])

\* A variant in which every close with code 0 runs the rest of buildFlake.
ChildCloseResuming(code) ==
    /\ Alive
    /\ LET c == onClose(child, code)
           d == [c EXCEPT !.seen = Append(@, <<"close", code>>)]
           r == IF code = "0" \/ child.promise = "pending"
                THEN buildFlakeResume(files, [d EXCEPT !.value = trim(d.stdout)])
                ELSE [child |-> d, files |-> files, stderr |-> ""]
       IN  /\ child' = r.child
           /\ files' = r.files
           /\ last' = Call("child close", 0, <<code>>, r.stderr /= "", r.stderr)
    /\ UNCHANGED <<shells, homes, heap, supplied, inputs, description, devShells,
                   homeConfigurations, attached, registered>>

\* "close"
ChildClose(code) ==
    /\ Alive
    /\ Deliver(<<"close", code>>, onClose(child, code))

\* "error"
ChildError(message) ==
    /\ Alive
    /\ Deliver(<<"error", message>>, onError(child, message))

----------------------------------------------------------------------------
(* SpecShell and SpecValidate: one DevShellBuilder, constructed            *)
(* standalone, and every sequence of calls on it.  SpecShell draws the     *)
(* names so that order and repetition show; SpecValidate draws them so     *)
(* that calls with several invalid names happen.                           *)

Systems == {"x86_64-linux", "aarch64-darwin"}
\* Base package names; the second is one the examples pass to withPackages.
BasePkgNames == {"git", "python3Packages.pip"}
\* Names given to withPythonPackages: two of the allow-list, one outside it.
PyPkgNames == {"numpy", "pandas", "not-a-package"}
\* Names given to withPythonPackages: one of the allow-list, two outside it.
PyPkgNamesInvalid == {"numpy", "nmupy", "not-a-package"}

NoCall == Call("new", 0, <<>>, FALSE, "")

InitShell ==
    /\ shells = <<DevShellBuilder_new("default")>>
    /\ supplied = <<(<<>>)>>
    /\ homes = <<>>
    /\ heap = <<>>
    /\ inputs = <<>>
    /\ description = ""
    /\ devShells = <<>>
    /\ homeConfigurations = <<>>
    /\ attached = <<>>
    /\ registered = <<>>
    /\ files = {}
    /\ child = NoChild
    /\ last = NoCall

NextShell ==
    \/ \E pkgs \in SeqsUpTo(BasePkgNames, MaxArgs) : Shell_withPackages(1, pkgs)
    \/ \E pkgs \in SeqsUpTo(PyPkgNames, MaxArgs) : Shell_withPythonPackages(1, pkgs)
    \/ \E system \in Systems : Shell_withSystem(1, system)
    \/ Shell_toNix(1)

SpecShell == InitShell /\ [][NextShell]_vars

NextValidate ==
    \/ \E pkgs \in SeqsUpTo({"git"}, MaxArgs) : Shell_withPackages(1, pkgs)
    \/ \E pkgs \in SeqsUpTo(PyPkgNamesInvalid, MaxArgs) : Shell_withPythonPackages(1, pkgs)
    \/ Shell_toNix(1)

SpecValidate == InitShell /\ [][NextValidate]_vars

----------------------------------------------------------------------------
(* SpecHome: one HomeManagerBuilder, constructed standalone, and every     *)
(* sequence of enableProgram, set and toNix calls on it.                   *)

\* The default value of enableProgram's config parameter.
DefaultConfig == LObj(<< <<"enable", LBool(TRUE)>> >>)

\* Paths given to set: wholesale (two segments), leaves of a program, a
\* path through two intermediate levels, and a service.
SetPaths ==
    {"programs.git", "programs.git.enable", "programs.git.userName",
     "programs.git.extraConfig.core.editor", "services.gpg-agent.enable"}

\* Values given to set.
SetValues == {LBool(TRUE), LBool(FALSE), LStr("vim")}

InitHome ==
    /\ LET n == HomeManagerBuilder_new(<<>>, "alice")
       IN  homes = <<n.obj>> /\ heap = n.h
    /\ shells = <<>>
    /\ supplied = <<>>
    /\ inputs = <<>>
    /\ description = ""
    /\ devShells = <<>>
    /\ homeConfigurations = <<>>
    /\ attached = <<>>
    /\ registered = <<>>
    /\ files = {}
    /\ child = NoChild
    /\ last = NoCall

NextHome ==
    \/ Home_enableProgram(1, "git", DefaultConfig)
    \/ \E path \in SetPaths, lit \in SetValues : Home_set(1, path, lit)
    \/ Home_toNix(1)

SpecHome == InitHome /\ [][NextHome]_vars

----------------------------------------------------------------------------
(* Spec: a FlakeBuilder, the builders attached to it in each of the three  *)
(* ways, calls made through the handles the caller holds, and build().     *)

\* Configurator callbacks given to addDevShell: one that returns, one whose
\* second call throws.
ShellConfigs ==
    { << <<"withPackages", <<"git">> >> >>,
      << <<"withPackages", <<"git">> >>, <<"withPythonPackages", <<"not-a-package">> >> >> }

\* Configurator callbacks given to addHomeConfiguration.
HomeConfigs == { << <<"enableProgram", "git", DefaultConfig>> >> }

Init ==
    /\ shells = <<>>
    /\ supplied = <<>>
    /\ homes = <<>>
    /\ heap = <<>>
    /\ inputs = <<>>
    /\ description = ""
    /\ devShells = <<>>
    /\ homeConfigurations = <<>>
    /\ attached = <<>>
    /\ registered = <<>>
    /\ files = {}
    /\ child = NoChild
    /\ last = NoCall

\* addHomeConfigurationBuilder is given builders that are not attached yet;
\* SpecCollab gives it builders that are.
Next ==
    \/ NewDevShell("ci")
    \/ NewHomeManagerBuilder("bob")
    \/ addDevShell("default")
    \/ \E steps \in ShellConfigs : addDevShellWith("default", steps)
    \/ \E b \in DOMAIN shells : addDevShellBuilder(b)
    \/ addHomeConfiguration("alice")
    \/ \E steps \in HomeConfigs : addHomeConfigurationWith("alice", steps)
    \/ \E b \in DOMAIN homes :
          /\ \A i \in DOMAIN homeConfigurations : homeConfigurations[i] /= b
          /\ addHomeConfigurationBuilder(b)
    \/ \E b \in DOMAIN shells : Shell_withPackages(b, <<"git">>)
    \/ \E b \in DOMAIN homes : Home_enableProgram(b, "git", DefaultConfig)
    \/ build

Spec == Init /\ [][Next]_vars

\* SpecRender: the same, and toNix() called on the builders as well.
NextRender ==
    \/ Next
    \/ \E b \in DOMAIN shells : Shell_toNix(b)
    \/ \E b \in DOMAIN homes : Home_toNix(b)

SpecRender == Init /\ [][NextRender]_vars

----------------------------------------------------------------------------
(* SpecDoc: a FlakeBuilder with no environment and no profile: its inputs, *)
(* its description and build().                                            *)

InputNames == {"nixpkgs", "home-manager"}
InputUrls == {"github:NixOS/nixpkgs/nixos-24.05", "github:nix-community/home-manager"}
Descriptions == {"d", "Python ML development environment"}

NextDoc ==
    \/ \E name \in InputNames, url \in InputUrls : withInput(name, url)
    \/ \E desc \in Descriptions : withDescription(desc)
    \/ build

SpecDoc == Init /\ [][NextDoc]_vars

----------------------------------------------------------------------------
(* SpecProfile: one HomeManagerBuilder and the calls that set its plain    *)
(* fields, then toNix().                                                   *)

HomePaths == {"", "/home/alice"}
StateVersions == {"23.11", "24.11"}
HomePkgNames == {"git", "vim"}

NextProfile ==
    \/ \E path \in HomePaths : Home_withHomeDirectory(1, path)
    \/ \E version \in StateVersions : Home_withStateVersion(1, version)
    \/ \E pkgs \in SeqsUpTo(HomePkgNames, MaxArgs) : Home_withPackages(1, pkgs)
    \/ Home_toNix(1)

SpecProfile == InitHome /\ [][NextProfile]_vars

----------------------------------------------------------------------------
(* SpecHomeSet: one HomeManagerBuilder, entries stored in its extra        *)
(* settings with setHomeConfig, and set("home", value).                    *)

HomeConfigPaths == {"sessionVariables", "sessionPath"}
HomeConfigValues ==
    {LObj(<< <<"PAGER", LStr("less")>> >>), LArr(<<LStr("$HOME/bin")>>)}

\* Values given to set("home", ...).
HomeValues ==
    {LObj(<<>>),
     LObj(<< <<"sessionVariables", LObj(<< <<"EDITOR", LStr("nvim")>> >>)>> >>),
     LObj(<< <<"sessionPath", LArr(<<>>)>> >>),
     LObj(<< <<"language", LObj(<< <<"base", LStr("en_US.UTF-8")>> >>)>>,
             <<"sessionVariables", LObj(<< <<"EDITOR", LStr("nvim")>> >>)>> >>)}

NextHomeSet ==
    \/ Home_enableProgram(1, "git", DefaultConfig)
    \/ \E path \in HomeConfigPaths, lit \in HomeConfigValues : Home_setHomeConfig(1, path, lit)
    \/ \E lit \in HomeValues : Home_set(1, "home", lit)
    \/ Home_toNix(1)

SpecHomeSet == InitHome /\ [][NextHomeSet]_vars

----------------------------------------------------------------------------
(* SpecShared: one HomeManagerBuilder; a configuration object is passed    *)
(* new, or passed again under a second name, and set stores under the      *)
(* programs.                                                               *)

ProgramNames == {"git", "vim"}
SharedPaths == {"programs.git", "programs.git.userName", "programs.vim.enable"}
SharedValues == {LStr("alice"), LBool(FALSE)}

NextShared ==
    \/ \E name \in ProgramNames : Home_enableProgram(1, name, DefaultConfig)
    \/ \E name \in ProgramNames, held \in ProgramNames : Home_enableProgramHeld(1, name, held)
    \/ \E path \in SharedPaths, lit \in SharedValues : Home_set(1, path, lit)
    \/ Home_toNix(1)

SpecShared == InitHome /\ [][NextShared]_vars

----------------------------------------------------------------------------
(* SpecBlocks: one HomeManagerBuilder; values of several shapes are stored *)
(* for a program and a service, by enableProgram, enableService and set,   *)
(* and the profile is rendered.                                            *)

BlockValues ==
    {DefaultConfig, LObj(<<>>), LBool(TRUE),
     LObj(<< <<"settings", LObj(<< <<"theme", LStr("dark")>> >>)>> >>)}

NextBlocks ==
    \/ \E lit \in BlockValues : Home_enableProgram(1, "git", lit)
    \/ \E lit \in BlockValues : Home_enableService(1, "gpg-agent", lit)
    \/ \E lit \in BlockValues : Home_set(1, "programs.vim", lit)
    \/ Home_toNix(1)

SpecBlocks == InitHome /\ [][NextBlocks]_vars

----------------------------------------------------------------------------
(* SpecReplace: one HomeManagerBuilder; programs and a service are         *)
(* enabled, one configuration object under two names, and set stores       *)
(* whole entries and leaves.                                               *)

ReplacePaths ==
    {"programs.git", "services.gpg-agent", "programs.git.userName", "home.sessionPath"}
ReplaceValues == {LObj(<< <<"package", LStr("git")>> >>), LObj(<<>>), LStr("alice")}
ReplaceParts == [p \in ReplacePaths |-> Split(p, ".")]

NextReplace ==
    \/ Home_enableProgram(1, "git", DefaultConfig)
    \/ Home_enableProgramHeld(1, "vim", "git")
    \/ Home_enableService(1, "gpg-agent", DefaultConfig)
    \/ \E path \in ReplacePaths, lit \in ReplaceValues : Home_set(1, path, lit)
    \/ Home_toNix(1)

SpecReplace == InitHome /\ [][NextReplace]_vars

----------------------------------------------------------------------------
(* SpecResidual: one HomeManagerBuilder; set is called with paths of every *)
(* branch, those of the last branch among them, between other calls.       *)

ResidualPaths ==
    {"xdg.enable", "programs", "services", "", "programs.tmux", "home.sessionPath"}
ResidualValues ==
    {LObj(<< <<"tmux", LObj(<< <<"enable", LBool(TRUE)>> >>)>> >>), LBool(TRUE)}
ResidualParts == [p \in ResidualPaths |-> Split(p, ".")]

\* enableProgram and enableService are called without a config argument.
NextResidual ==
    \/ Home_enableProgram(1, "git", LUndefined)
    \/ Home_enableService(1, "gpg-agent", LUndefined)
    \/ Home_withPackages(1, <<"git">>)
    \/ Home_addModule(1, "./home.nix")
    \/ \E path \in ResidualPaths, lit \in ResidualValues : Home_set(1, path, lit)
    \/ Home_toNix(1)

SpecResidual == InitHome /\ [][NextResidual]_vars

----------------------------------------------------------------------------
(* SpecModules: a FlakeBuilder and profiles added to it; custom modules    *)
(* are added to them, inside a configurator and through the handles, and   *)
(* both toNix() and build() are called.                                    *)

ModulePaths == {"./home.nix", "./git.nix"}

\* Configurator callbacks that add modules.
ModuleConfigs ==
    { << <<"addModule", "./home.nix", LUndefined>>, <<"enableProgram", "git", DefaultConfig>>,
         <<"addModule", "./git.nix", LUndefined>> >>,
      << <<"addModule", "./home.nix", LUndefined>> >> }

NextModules ==
    \/ addHomeConfiguration("alice")
    \/ \E steps \in ModuleConfigs : addHomeConfigurationWith("bob", steps)
    \/ \E b \in DOMAIN homes : Home_addModule(b, "./git.nix")
    \/ \E b \in DOMAIN homes : Home_toNix(b)
    \/ build

SpecModules == Init /\ [][NextModules]_vars

----------------------------------------------------------------------------
(* SpecEnvs: a FlakeBuilder and environments attached in the three ways,   *)
(* two of them under one name, a builder attached a second time, packages  *)
(* added through the handle of the first builder created, and build().     *)

NextEnvs ==
    \/ NewDevShell("default")
    \/ addDevShell("default")
    \/ \E steps \in ShellConfigs : addDevShellWith("ci", steps)
    \/ \E b \in DOMAIN shells : addDevShellBuilder(b)
    \/ \E b \in DOMAIN shells : addDevShellBuilderAgain(b)
    \/ Shell_withPackages(1, <<"git">>)
    \/ build

SpecEnvs == Init /\ [][NextEnvs]_vars

----------------------------------------------------------------------------
(* SpecInline: a FlakeBuilder to which environments and profiles are added *)
(* with configurator callbacks, some of which throw part way, and build(). *)

\* Configurators of an environment: one that returns, and one whose second
\* call throws (a name outside the allow-list) before its third.
InlineShellConfigs ==
    { << <<"withPackages", <<"nodejs">> >> >>,
      << <<"withPackages", <<"git">> >>,
         <<"withPythonPackages", <<"numpy", "not-a-package">> >>,
         <<"withPackages", <<"vim">> >> >> }

\* Configurators of a profile: one that returns, and one whose second call
\* throws (a store through a string) before its third.
InlineHomeConfigs ==
    { << <<"enableProgram", "git", DefaultConfig>> >>,
      << <<"set", "programs.git", LStr("vim")>>,
         <<"set", "programs.git.enable", LBool(TRUE)>>,
         <<"addModule", "./home.nix", LUndefined>> >> }

NextInline ==
    \/ \E steps \in InlineShellConfigs : addDevShellWith("default", steps)
    \/ \E steps \in InlineHomeConfigs : addHomeConfigurationWith("alice", steps)
    \/ \E desc \in Descriptions : withDescription(desc)
    \/ build

SpecInline == Init /\ [][NextInline]_vars

----------------------------------------------------------------------------
(* SpecPlatform: a FlakeBuilder and environments added to it, their        *)
(* packages and platform set through the handles, and toNix(), buildAst()  *)
(* and build().                                                            *)

NextPlatform ==
    \/ addDevShell("default")
    \/ \E b \in DOMAIN shells : Shell_withPackages(b, <<"git">>)
    \/ \E b \in DOMAIN shells, system \in Systems : Shell_withSystem(b, system)
    \/ \E b \in DOMAIN shells : Shell_toNix(b)
    \/ \E b \in DOMAIN shells : Shell_buildAst(b)
    \/ build

SpecPlatform == Init /\ [][NextPlatform]_vars

----------------------------------------------------------------------------
(* SpecCollab: a FlakeBuilder whose inputs are registered or not, to which *)
(* environments and profiles are added or not, a profile's builder also a  *)
(* second time, and build().                                               *)

\* The url registered for an input name.
UrlOf(name) ==
    IF name = "nixpkgs" THEN "github:NixOS/nixpkgs/nixos-24.05"
    ELSE "github:nix-community/home-manager"

NextCollab ==
    \/ \E name \in InputNames : withInput(name, UrlOf(name))
    \/ addDevShell("default")
    \/ addHomeConfiguration("alice")
    \/ \E b \in DOMAIN homes : addHomeConfigurationBuilder(b)
    \/ build

SpecCollab == Init /\ [][NextCollab]_vars

----------------------------------------------------------------------------
(* SpecUsername: the setters of a HomeManagerBuilder made for "alice",     *)
(* called with paths under home, getUsername() and toNix().                *)

\* Keys given to setHomeConfig.
UsernameKeys == {"username", "sessionPath"}
\* Paths given to set.
UsernamePaths == {"home.username", "home.sessionPath", "programs.git.userName"}
\* Values given to setHomeConfig and set.
UsernameValues == {LStr("bob"), LStr("alice")}

NextUsername ==
    \/ \E key \in UsernameKeys, lit \in UsernameValues : Home_setHomeConfig(1, key, lit)
    \/ \E path \in UsernamePaths, lit \in UsernameValues : Home_set(1, path, lit)
    \/ Home_set(1, "home", LObj(<< <<"username", LStr("bob")>> >>))
    \/ Home_withHomeDirectory(1, "/home/bob")
    \/ Home_withStateVersion(1, "24.11")
    \/ Home_getUsername(1)
    \/ Home_toNix(1)

SpecUsername == InitHome /\ [][NextUsername]_vars

----------------------------------------------------------------------------
(* SpecCli: init commands, one process after the other, run in a directory  *)
(* that holds any of a few files to start with.                            *)

UserScript == "console.log(flake);\n"

InitialFiles ==
    {<<"/w/flake.ts", UserScript>>, <<"/w/app.tsx", UserScript>>, <<"/w/notes.txt", "notes\n">>,
     <<"/w/sub/x.ts", UserScript>>}

\* The arguments of init: none, a file, a new name, the working directory, a
\* directory (or a new name), and a path through a file (or a missing directory).
InitArgs ==
    {LUndefined, LStr("app.tsx"), LStr("my-config.ts"), LStr("."), LStr("sub"),
     LStr("notes.txt/x.ts")}
\* The -o values of build: none, a new name, a path that ends in a slash,
\* and a path through a missing directory.
BuildOutputs == {LUndefined, LStr("out.nix"), LStr("notes.txt/"), LStr("nodir/out.nix")}

InitCli ==
    /\ files \in SUBSET InitialFiles
    /\ child = NoChild
    /\ shells = <<>>
    /\ supplied = <<>>
    /\ homes = <<>>
    /\ heap = <<>>
    /\ inputs = <<>>
    /\ description = ""
    /\ devShells = <<>>
    /\ homeConfigurations = <<>>
    /\ attached = <<>>
    /\ registered = <<>>
    /\ last = NoCall

NextCli == \E outputFile \in InitArgs : CliInit(outputFile)

SpecCli == InitCli /\ [][NextCli]_vars

----------------------------------------------------------------------------
(* SpecChild: one nixts build process and the events of its child, in any  *)
(* order and number, in a directory that holds a script, a text file and,  *)
(* or not, an output of an earlier build.                                  *)

ChildInputs == {"flake.ts", "sub/x.ts", "notes.txt", "my-config.ts", ".", ""}
Chunks == {"{ }", "\f\n"}
ExitCodes == {"0", "1"}

InitChild ==
    /\ files \in {InitialFiles, InitialFiles \cup {<<"/w/flake.nix", "{ old }">>}}
    /\ child = NoChild
    /\ shells = <<>>
    /\ supplied = <<>>
    /\ homes = <<>>
    /\ heap = <<>>
    /\ inputs = <<>>
    /\ description = ""
    /\ devShells = <<>>
    /\ homeConfigurations = <<>>
    /\ attached = <<>>
    /\ registered = <<>>
    /\ last = NoCall

NextChild ==
    \/ \E inputFile \in ChildInputs, outputFile \in BuildOutputs, watch \in BOOLEAN :
          CliBuildSpawn(inputFile, outputFile, watch)
    \/ \E data \in Chunks : ChildStdout(data)
    \/ ChildStderr("oops\n")
    \/ \E code \in ExitCodes : ChildClose(code)
    \/ ChildError("spawn ENOENT")

SpecChild == InitChild /\ [][NextChild]_vars

----------------------------------------------------------------------------
(* SpecValue: toNixValue applied to values of every shape, at several      *)
(* indents.                                                                *)

MaxItems == 2         \* most elements of a list, most keys of a mapping drawn
MaxIndent == 2        \* greatest indent toNixValue is called with

\* The values that are not lists or mappings.
PrimLits ==
    {LStr("vim"), LStr(""), LNum("1"), LNum("0"), LBool(TRUE), LBool(FALSE),
     LNull, LUndefined, LSymbol}

\* The values drawn as elements and entries.
ItemLits == {LStr("vim"), LBool(TRUE), LNull}

ValueKeys == <<"enable", "userName", "b", "a">>

\* Lists of up to MaxItems elements and mappings of up to MaxItems keys (the
\* keys taken in the order of ValueKeys or in the reverse of it), over S.
ListsOver(S) == {LArr(items) : items \in SeqsUpTo(S, MaxItems)}
MappingsOver(S) ==
    {LObj([i \in 1..Len(vs) |-> <<ValueKeys[i], vs[i]>>]) : vs \in SeqsUpTo(S, MaxItems)}
    \cup {LObj([i \in 1..Len(vs) |-> <<ValueKeys[Len(ValueKeys) + 1 - i], vs[i]>>]) :
             vs \in SeqsUpTo(S, MaxItems)}

FlatLits == PrimLits \cup ListsOver(ItemLits) \cup MappingsOver(ItemLits)

\* One more level: a list or mapping that holds a list or mapping.
NestedLits ==
    {LArr(<<x>>) : x \in ListsOver(ItemLits) \cup MappingsOver(ItemLits)}
    \cup {LObj(<< <<"enable", LBool(TRUE)>>, <<"extraConfig", x>> >>) :
             x \in ListsOver(ItemLits) \cup MappingsOver(ItemLits)}

\* Mappings whose keys are written out of their sorted order, and mappings
\* with keys that are array indices.
OrderKeys == {<<"b", "a">>, <<"userName", "enable">>, <<"1", "0">>, <<"b", "1">>}
OrderLits ==
    {LObj(<< <<ks[1], x>>, <<ks[2], LBool(TRUE)>> >>) : ks \in OrderKeys, x \in ItemLits}

\* Mappings nested three levels deep, the innermost value a primitive or a
\* list of mappings.
DeepLits ==
    {LObj(<< <<"programs", LObj(<< <<"git", LObj(<< <<"extraConfig", x>> >>)>> >>)>>,
             <<"enable", LBool(TRUE)>> >>) :
        x \in {LStr("vim"), LArr(<<DefaultConfig, LObj(<<>>)>>)}}

ValueLits == FlatLits \cup NestedLits \cup OrderLits \cup DeepLits

toNixValue_NoNullCheck(lit, indent) ==
    /\ indent \in 0..MaxIndent
    /\ LET e == Eval(<<>>, lit)
       IN  last' = IF lit.t = "null"
                   THEN CallV("toNixValue", 0, <<IndexKeys[indent + 1]>>, lit, TRUE, "TypeError")
                   ELSE CallV("toNixValue", 0, <<IndexKeys[indent + 1]>>, lit, FALSE,
                              toNixValue(e.h, e.val, indent))
    /\ UNCHANGED <<shells, homes, heap, supplied, flakeVars>>

toNixValue_AtIndentZero(lit, indent) ==
    /\ indent \in 0..MaxIndent
    /\ LET e == Eval(<<>>, lit)
       IN  last' = CallV("toNixValue", 0, <<IndexKeys[indent + 1]>>, lit, FALSE,
                         toNixValue(e.h, e.val, 0))
    /\ UNCHANGED <<shells, homes, heap, supplied, flakeVars>>

\* toNixValue(value, indent) called on the value a literal evaluates to:
\* none of its branches throws.
toNixValue_call(lit, indent) ==
    /\ indent \in 0..MaxIndent
    /\ LET e == Eval(<<>>, lit)
       IN  last' = CallV("toNixValue", 0, <<IndexKeys[indent + 1]>>, lit, FALSE,
                         toNixValue(e.h, e.val, indent))
    /\ UNCHANGED <<shells, homes, heap, supplied, flakeVars>>

NextValue == \E lit \in ValueLits, indent \in 0..MaxIndent : toNixValue_call(lit, indent)

SpecValue == Init /\ [][NextValue]_vars

----------------------------------------------------------------------------
(* Properties of DevShellBuilder, checked under SpecValidate (C1, C2) and   *)
(* SpecShell (C3).                                                         *)

RECURSIVE NamesOutside(_)
\* The names of a call that are not in the allow-list, in call order.
NamesOutside(names) ==
    IF names = <<>> THEN <<>>
    ELSE (IF Head(names) \in PythonPackages THEN <<>> ELSE <<Head(names)>>)
         \o NamesOutside(Tail(names))

IsPyCall(c) == c.op = "DevShellBuilder.withPythonPackages"

\* C1. Validation atomicity: a withPythonPackages call given at least one
\* name outside the allow-list throws, and leaves pythonPackages, packages,
\* system and name of the builder exactly as they were, also when valid
\* names precede the invalid one.
C1_ValidationAtomicity ==
    [][(IsPyCall(last') /\ NamesOutside(last'.args) /= <<>>)
          => (last'.threw /\ shells' = shells)]_vars

\* A call <<valid, invalid>> has thrown on a builder that already holds
\* python packages.
C1_Witness ==
    /\ IsPyCall(last) /\ last.threw
    /\ Len(last.args) = 2
    /\ last.args[1] \in PythonPackages /\ last.args[2] \notin PythonPackages
    /\ shells[1].pythonPackages /= <<>>
    /\ shells[1].packages /= <<>>

\* C2. withPythonPackages throws if and only if some name of the call is
\* outside the allow-list, and the message of the Error enumerates exactly
\* the names of the call outside the allow-list, in call order.
C2_ErrorEnumeratesInvalid ==
    IsPyCall(last) =>
        /\ last.threw <=> (\E i \in 1..Len(last.args) : last.args[i] \notin PythonPackages)
        /\ last.threw =>
              /\ StartsWith(last.value, "Invalid Python packages: ")
              /\ Split(SubSeq(last.value, Len("Invalid Python packages: ") + 1,
                              Len(last.value)), ", ")
                   = NamesOutside(last.args)

\* A call with two distinct invalid names has thrown.
C2_Witness ==
    /\ IsPyCall(last) /\ last.threw
    /\ Len(last.args) = 2
    /\ last.args[1] \notin PythonPackages /\ last.args[2] \notin PythonPackages
    /\ last.args[1] /= last.args[2]

\* The package tokens of the buildInputs line of a rendered environment.
BuildInputsTokens(text) ==
    LET line == Split(text, "\n")[2]
        open == "        buildInputs = ["
        inner == SubSeq(line, Len(open) + 1, Len(line) - Len("];"))
    IN  SelectSeq(Split(inner, " "), LAMBDA t : t /= "")

\* The tokens the history of a builder calls for: base names first, python
\* names after, each kind in the order supplied.
ExpectedTokens(hist) ==
    LET base == SelectSeq(hist, LAMBDA e : e[1] = "base")
        python == SelectSeq(hist, LAMBDA e : e[1] = "python")
    IN  [i \in 1..Len(base) |-> "pkgs." \o base[i][2]]
        \o [i \in 1..Len(python) |-> "pkgs.python3Packages." \o python[i][2]]

\* C3. Order preservation: after any sequence of withPackages and
\* withPythonPackages calls, the tokens of the rendered buildInputs list are
\* the base packages in insertion order followed by the python packages in
\* insertion order, duplicates kept.
C3_OrderPreservation ==
    \A b \in DOMAIN shells :
        BuildInputsTokens(DevShellBuilder_toNix(shells[b])) = ExpectedTokens(supplied[b])

\* A python package was supplied before a base package, and a name twice.
C3_Witness ==
    /\ last.op = "DevShellBuilder.toNix"
    /\ \E i, j \in DOMAIN supplied[1] :
          i < j /\ supplied[1][i][1] = "python" /\ supplied[1][j][1] = "base"
    /\ \E i, j \in DOMAIN supplied[1] : i < j /\ supplied[1][i] = supplied[1][j]
    /\ \E i, j \in DOMAIN supplied[1] :
          i < j /\ supplied[1][i][1] = supplied[1][j][1] /\ supplied[1][i] /= supplied[1][j]

----------------------------------------------------------------------------
(* Properties of HomeManagerBuilder.set, checked under SpecHome.           *)

RECURSIVE Resolve(_, _, _)
\* The value the key path q leads to from value val (undefined when a key
\* on the way is absent).
Resolve(h, val, q) ==
    IF q = <<>> THEN val ELSE Resolve(h, GetProp(h, val, Head(q)), Tail(q))

RECURSIVE KeyPaths(_, _, _)
\* The non-empty key paths that exist under value val, to depth fuel.
KeyPaths(h, val, fuel) ==
    IF ~IsObject(val) \/ fuel = 0 THEN {}
    ELSE UNION {{<<e.k>>} \cup {<<e.k>> \o q : q \in KeyPaths(h, e.val, fuel - 1)} :
                e \in SeqRange(h[val.a].props)}

IsPrefix(p, q) == Len(p) <= Len(q) /\ SubSeq(q, 1, Len(p)) = p

\* What a value is, as its typeof tag and its serialization.
Content(h, val) == <<val.t, toNixValue(h, val, 0)>>

LitContent(lit) == LET e == Eval(<<>>, lit) IN Content(e.h, e.val)

\* A call of set with three or more segments under programs or services.
PartsOf == [p \in SetPaths |-> Split(p, ".")]

IsDeepSet(c) ==
    /\ c.op = "HomeManagerBuilder.set"
    /\ Len(PartsOf[c.args[1]]) >= 3
    /\ PartsOf[c.args[1]][1] \in {"programs", "services"}

\* C6. Dotted-path non-destructive merge: set with a path of three or more
\* segments under programs or services leaves every key that is not on the
\* path being set with the value it had; where every level on the path is
\* missing or a mapping, the call returns, every level on the path is then a
\* mapping and the terminal leaf holds the value given.
C6_NonDestructiveMerge ==
    [][IsDeepSet(last') =>
        LET parts == PartsOf[last'.args[1]]
            b == last'.recv
            old == VRef(IF parts[1] = "programs" THEN homes[b].programs
                        ELSE homes[b].services)
            new == VRef(IF parts[1] = "programs" THEN homes'[b].programs
                        ELSE homes'[b].services)
            other == VRef(IF parts[1] = "programs" THEN homes[b].services
                          ELSE homes[b].programs)
            other2 == VRef(IF parts[1] = "programs" THEN homes'[b].services
                           ELSE homes'[b].programs)
            path == Tail(parts)
            levels == {SubSeq(path, 1, i) : i \in 1..(Len(path) - 1)}
        IN  /\ \A q \in KeyPaths(heap, old, Len(heap)) :
                  (~IsPrefix(q, path) /\ ~IsPrefix(path, q))
                     => Content(heap', Resolve(heap', new, q))
                          = Content(heap, Resolve(heap, old, q))
            /\ Content(heap', other2) = Content(heap, other)
            /\ (\A q \in levels : Resolve(heap, old, q).t \in {"undefined", "object"})
                  => ~last'.threw
            /\ ~last'.threw =>
                  /\ \A q \in levels : IsObject(Resolve(heap', new, q))
                  /\ Content(heap', Resolve(heap', new, path)) = LitContent(last'.arg)
      ]_vars

\* programs.git.enable was set, and set has then created two levels under
\* programs.git to store a leaf: enable is still there beside them.
C6_Witness ==
    /\ last.op = "HomeManagerBuilder.set"
    /\ last.args = <<"programs.git.extraConfig.core.editor">>
    /\ ~last.threw
    /\ toNixValue(heap, Resolve(heap, VRef(homes[1].programs), <<"git">>), 0)
         = "{\n  enable = true;\n  userName = \"vim\";\n  extraConfig = {\n    core = {\n"
           \o "      editor = \"vim\";\n    };\n  };\n}"

----------------------------------------------------------------------------
(* Properties of FlakeBuilder.build, checked under Spec and SpecDoc.       *)

\* What build() returns in the current state.
Rendered ==
    FlakeBuilder_build(inputs, description, devShells, homeConfigurations,
                       shells, homes, heap)

\* C4. Render idempotence: in every reachable state that follows a build()
\* call, a second build() call made with no builder operation in between
\* returns the string the first returned.
C4_RenderIdempotence ==
    (last.op = "build") => (~last.threw /\ Rendered = last.value)

\* build() has returned for a document with an environment and a profile,
\* each holding something.
C4_Witness ==
    /\ last.op = "build"
    /\ Len(devShells) = 1 /\ Len(homeConfigurations) = 1
    /\ shells[devShells[1]].packages /= <<>>
    /\ heap[homes[homeConfigurations[1]].programs].props /= <<>>

RenderOps == {"build", "DevShellBuilder.toNix", "HomeManagerBuilder.toNix"}

\* C5. Render performs no mutation: a step that is a build(), a
\* DevShellBuilder.toNix() or a HomeManagerBuilder.toNix() call leaves the
\* inputs, the description, the lists of attached builders and every field
\* of every builder as they were.
C5_RenderNoMutation ==
    [][(last'.op \in RenderOps) =>
          /\ inputs' = inputs /\ description' = description
          /\ devShells' = devShells /\ homeConfigurations' = homeConfigurations
          /\ shells' = shells /\ homes' = homes /\ heap' = heap]_vars

\* toNix() has returned for an attached environment that holds a package,
\* while a profile holding a program is attached too.
C5_Witness ==
    /\ last.op = "DevShellBuilder.toNix"
    /\ \E i \in DOMAIN devShells : devShells[i] = last.recv
    /\ shells[last.recv].packages /= <<>>
    /\ \E i \in DOMAIN homeConfigurations :
          heap[homes[homeConfigurations[i]].programs].props /= <<>>

\* The text an attached builder renders to in the current state.
TextNow(a) ==
    IF a[1] = "shell" THEN DevShellBuilder_toNix(shells[a[2]])
    ELSE HomeManagerBuilder_toNix(heap, homes[a[2]])

\* C7. Render reads current state: the string a build() call returns holds,
\* for every builder attached to the FlakeBuilder, the text the builder
\* renders to at the time of that call, whatever was changed through the
\* caller's handle since it was attached.
C7_RenderReadsCurrentState ==
    (last.op = "build") =>
        \A i \in DOMAIN attached : Contains(last.value, TextNow(attached[i]))

\* build() has returned after an environment and a profile were both
\* changed since they were attached.
C7_Witness ==
    /\ last.op = "build"
    /\ \E i \in DOMAIN attached :
          attached[i][1] = "shell" /\ TextNow(attached[i]) /= attached[i][3]
    /\ \E i \in DOMAIN attached :
          attached[i][1] = "home" /\ TextNow(attached[i]) /= attached[i][3]

\* The line of a text that declares the outputs.
OutputsDecl(text) ==
    LET rest == SubSeq(text, IndexOf(text, "\n  outputs = ") + 1, Len(text))
    IN  SubSeq(rest, 1, IndexOf(rest, "\n") - 1)

\* C8. The outputs declaration of the rendered document names home-manager
\* if and only if a profile is attached: without a profile it declares self
\* and nixpkgs only, with one it declares home-manager as well.
C8_HomeManagerDeclaredIffProfile ==
    (last.op = "build") =>
        LET decl == OutputsDecl(last.value)
        IN  IF homeConfigurations = <<>>
            THEN /\ StartsWith(decl, "  outputs = { self, nixpkgs }:")
                 /\ ~Contains(decl, "home-manager")
            ELSE StartsWith(decl, "  outputs = { self, nixpkgs, home-manager }:")

\* build() has returned for a document with an environment and no profile.
C8_Witness ==
    /\ last.op = "build"
    /\ devShells /= <<>> /\ homeConfigurations = <<>>

\* The text of a document from its outputs declaration on.
OutputsSectionOf(text) ==
    SubSeq(text, IndexOf(text, "\n  outputs = ") + 1, Len(text))

\* C9. Empty document: build() on a FlakeBuilder with no environment and no
\* profile returns, whatever inputs and description were set, and the
\* outputs section of what it returns is `outputs = { self, nixpkgs }: {};`
\* with no devShells and no homeConfigurations block.
C9_EmptyDocument ==
    (last.op = "build" /\ devShells = <<>> /\ homeConfigurations = <<>>) =>
        /\ ~last.threw
        /\ OutputsSectionOf(last.value) = "  outputs = { self, nixpkgs }: {};\n}"
        /\ ~Contains(OutputsSectionOf(last.value), "devShells")
        /\ ~Contains(OutputsSectionOf(last.value), "homeConfigurations")

\* build() has returned for an empty document with inputs and a description.
C9_Witness ==
    /\ last.op = "build" /\ ~last.threw
    /\ devShells = <<>> /\ homeConfigurations = <<>>
    /\ Len(inputs) = 2 /\ description = "Python ML development environment"

\* The lines of the inputs block of a rendered document.
InputsBlock(text) ==
    LET open == "  inputs = {\n"
        from == IndexOf(text, open) + Len(open)
        rest == SubSeq(text, from, Len(text))
        inner == SubSeq(rest, 1, IndexOf(rest, "\n  };\n\n  outputs = ") - 1)
    IN  IF inner = "" THEN <<>> ELSE Split(inner, "\n")

RECURSIVE FirstRegistered(_, _)
\* The names of the calls of hist in the order first registered, given the
\* names seen.
FirstRegistered(hist, seen) ==
    IF hist = <<>> THEN <<>>
    ELSE IF Head(hist)[1] \in seen THEN FirstRegistered(Tail(hist), seen)
    ELSE <<Head(hist)[1]>> \o FirstRegistered(Tail(hist), seen \cup {Head(hist)[1]})

\* The url of the most recent call of hist that registers name.
LatestUrl(hist, name) ==
    LET at == {i \in DOMAIN hist : hist[i][1] = name}
    IN  hist[CHOOSE i \in at : \A j \in at : j <= i][2]

\* C10. External inputs: the inputs block of a rendered document holds one
\* line `NAME.url = "URL";` per distinct name registered by withInput, with
\* the url of the most recent registration of the name, in the order in
\* which the names were first registered.
C10_InputsBlock ==
    (last.op = "build") =>
        LET names == FirstRegistered(registered, {})
        IN  InputsBlock(last.value)
              = [i \in 1..Len(names) |->
                    "    " \o names[i] \o ".url = \"" \o LatestUrl(registered, names[i])
                    \o "\";"]

\* build() has returned after a name was registered, then another name, then
\* the first name again with another url.
C10_Witness ==
    /\ last.op = "build"
    /\ Len(registered) = 3
    /\ registered[1][1] = registered[3][1] /\ registered[1][2] /= registered[3][2]
    /\ registered[2][1] /= registered[1][1]

----------------------------------------------------------------------------
(* Properties of toNixValue, checked under SpecValue.                      *)

\* C11. Serializer totality: toNixValue returns a string, without throwing,
\* for every string, number, boolean, list and mapping, nested or not; and
\* what it returns is the token null exactly for a null, an absent and an
\* unrecognized value.
C11_SerializerTotal ==
    (last.op = "toNixValue") =>
        /\ ~last.threw
        /\ Len(last.value) > 0
        /\ (last.value = "null") <=> (last.arg.t \in {"null", "undefined", "symbol"})

\* toNixValue has returned for a mapping that holds a list that holds a null.
C11_Witness ==
    /\ last.op = "toNixValue" /\ ~last.threw
    /\ last.arg = LObj(<< <<"enable", LBool(TRUE)>>,
                          <<"extraConfig", LArr(<<LStr("vim"), LNull>>)>> >>)
    /\ last.args = <<"1">>
    /\ last.value = "{\n    enable = true;\n    extraConfig = [\n      \"vim\"\n      null\n"
                    \o "    ];\n  }"

\* What toNixValue returns for the value of a literal at an indent.
LitText(lit, indent) == LET e == Eval(<<>>, lit) IN toNixValue(e.h, e.val, indent)

\* C20. Serializer mapping form: an empty mapping serializes to {}; any
\* other mapping to an opening brace line, then for every key, in the order
\* the keys were inserted, whatever the key strings are, a line
\* `key = <value at indent + 1>;` indented indent + 1 units, then a closing
\* brace indented indent units.
C20_MappingForm ==
    (last.op = "toNixValue" /\ last.arg.t = "object") =>
        LET indent == IndexOfKey(last.args[1]) - 1
            kids == last.arg.kids
        IN  last.value =
              IF kids = <<>> THEN "{}"
              ELSE "{\n"
                   \o Join([i \in 1..Len(kids) |->
                               Indent(indent + 1) \o kids[i][1] \o " = "
                               \o LitText(kids[i][2], indent + 1) \o ";"], "\n")
                   \o "\n" \o Indent(indent) \o "}"

RECURSIVE LeadingSpaces(_)
\* The number of spaces a line begins with.
LeadingSpaces(line) ==
    IF line /= "" /\ SubSeq(line, 1, 1) = " "
    THEN 1 + LeadingSpaces(SubSeq(line, 2, Len(line))) ELSE 0

\* A line that opens a list or mapping, and one that closes it.
OpensContainer(line) == EndsWith(line, "[") \/ EndsWith(line, "{")
ClosesContainer(line) ==
    LET rest == SubSeq(line, LeadingSpaces(line) + 1, Len(line))
    IN  StartsWith(rest, "]") \/ StartsWith(rest, "}")

RECURSIVE IndentedFrom(_, _, _, _)
\* From line i on, with depth containers open before it, every line begins
\* with indent + (its depth) units of two spaces: an element or entry at the
\* depth of the containers open around it, a closing line at the depth of
\* the container it closes.
IndentedFrom(lines, i, depth, indent) ==
    IF i > Len(lines) THEN depth = 0
    ELSE LET d == IF ClosesContainer(lines[i]) THEN depth - 1 ELSE depth
         IN  /\ LeadingSpaces(lines[i]) = 2 * (indent + d)
             /\ IndentedFrom(lines, i + 1, IF OpensContainer(lines[i]) THEN d + 1 ELSE d, indent)

\* C21. Serializer indentation: in the text of toNixValue(value, n) every
\* line of an element or entry d levels below the root value begins with
\* exactly n + d units of two spaces, and the closing line of a container at
\* depth d with exactly n + d units; one unit more per nesting level.
C21_IndentPerLevel ==
    (last.op = "toNixValue") =>
        LET lines == Split(last.value, "\n")
        IN  IndentedFrom(lines, 2, IF OpensContainer(lines[1]) THEN 1 ELSE 0,
                         IndexOfKey(last.args[1]) - 1)

\* toNixValue has returned, at indent 1, for a mapping nested three levels
\* deep that holds a list of mappings.
C21_Witness ==
    /\ last.op = "toNixValue"
    /\ last.args = <<"1">>
    /\ last.value = "{\n    programs = {\n      git = {\n        extraConfig = [\n"
                    \o "          {\n            enable = true;\n          }\n"
                    \o "          {}\n        ];\n      };\n    };\n"
                    \o "    enable = true;\n  }"

----------------------------------------------------------------------------
(* Properties of DevShellBuilder.toNix, checked under SpecShell.           *)

\* The list of the buildInputs line of a rendered environment, from its
\* opening bracket on.
BuildInputsList(text) ==
    LET line == Split(text, "\n")[2]
    IN  SubSeq(line, Len("        buildInputs = ") + 1, Len(line))

\* C12. The rendered buildInputs list is one flat list whose package
\* references are separated by single spaces, whichever of the two package
\* lists is empty: where the builder holds a package, the list is the
\* opening bracket, a space, the references joined by single spaces, a
\* space, the closing bracket.
C12_SingleSpaces ==
    (last.op = "DevShellBuilder.toNix") =>
        LET sh == shells[last.recv]
            refs == Prefixed("pkgs.", sh.packages)
                    \o Prefixed("pkgs.python3Packages.", sh.pythonPackages)
        IN  refs /= <<>> => BuildInputsList(last.value) = "[ " \o Join(refs, " ") \o " ];"

----------------------------------------------------------------------------
(* Properties of the HomeManagerBuilder operations, checked under SpecHome. *)

\* C13. Apart from the allow-list failure of withPythonPackages, no builder
\* or render operation fails: every other call returns normally.
C13_NoOperationFails ==
    (last.op /= "DevShellBuilder.withPythonPackages") => ~last.threw

\* The lines of a text that start with a prefix.
LinesWith(text, prefix) ==
    SelectSeq(Split(text, "\n"), LAMBDA l : StartsWith(l, prefix))

\* C14. Profile render emits each optional line exactly when its field is
\* set: toNix() always holds the home.username line and the
\* home.stateVersion line with the version of the builder, holds the
\* home.homeDirectory line if and only if withHomeDirectory has been called,
\* and holds the home.packages line if and only if the package sequence is
\* not empty.
C14_OptionalLines ==
    (last.op = "HomeManagerBuilder.toNix") =>
        LET hm == homes[last.recv]
        IN  /\ LinesWith(last.value, "    home.username = ")
                 = <<"    home.username = \"" \o hm.username \o "\";">>
            /\ LinesWith(last.value, "    home.stateVersion = ")
                 = <<"    home.stateVersion = \"" \o hm.stateVersion \o "\";">>
            /\ (LinesWith(last.value, "    home.homeDirectory = ") /= <<>>)
                 <=> (hm.homeDirectory.t /= "undefined")
            /\ (LinesWith(last.value, "    home.packages = ") /= <<>>)
                 <=> (hm.packages /= <<>>)

\* The keys of a sequence of properties.
KeysOf(props) == {props[i].k : i \in DOMAIN props}

\* C15. set with the single-segment path home merges the fields of the
\* value into the extra settings, shallowly: every key of the value then
\* holds the value's entry and nothing else, every other key of the extra
\* settings keeps its entry, no other key appears, and programs and
\* services are as they were.
C15_HomeShallowMerge ==
    [][(/\ last'.op = "HomeManagerBuilder.set"
        /\ last'.args = <<"home">>
        /\ last'.arg.t = "object") =>
        LET b == last'.recv
            old == heap[homes[b].homeConfig].props
            new == heap'[homes'[b].homeConfig].props
            kids == last'.arg.kids
        IN  /\ ~last'.threw
            /\ \A i \in DOMAIN kids :
                  Content(heap', GetOwn(new, kids[i][1])) = LitContent(kids[i][2])
            /\ \A i \in DOMAIN old :
                  (\A j \in DOMAIN kids : kids[j][1] /= old[i].k)
                     => Content(heap', GetOwn(new, old[i].k)) = Content(heap, old[i].val)
            /\ KeysOf(new) = KeysOf(old) \cup {kids[j][1] : j \in DOMAIN kids}
            /\ Content(heap', VRef(homes'[b].programs)) = Content(heap, VRef(homes[b].programs))
            /\ Content(heap', VRef(homes'[b].services)) = Content(heap, VRef(homes[b].services))
      ]_vars

\* sessionVariables held PAGER and sessionPath a path; set("home", ...) has
\* then stored a sessionVariables that holds EDITOR only, and git is enabled.
C15_Witness ==
    /\ last.op = "HomeManagerBuilder.set" /\ last.args = <<"home">> /\ ~last.threw
    /\ toNixValue(heap, VRef(homes[1].homeConfig), 0)
         = "{\n  sessionVariables = {\n    EDITOR = \"nvim\";\n  };\n"
           \o "  sessionPath = [\n    \"$HOME/bin\"\n  ];\n}"
    /\ heap[homes[1].programs].props /= <<>>

----------------------------------------------------------------------------
(* C16: nixts init on a target that exists (the path named, flake.ts when  *)
(* none is named; a file or a directory) writes an error, exits non-zero   *)
(* and leaves every file as it was; the template is written only when the  *)
(* target does not exist, to that path and nowhere else, and a command     *)
(* that exits non-zero has written nothing.                                *)

InitTarget ==
    resolve(IF last'.arg.t = "string" /\ last'.arg.v /= "" THEN last'.arg.v ELSE "flake.ts")

\* The target is a file or a directory of the file system.
TargetExists == IsFile(files, InitTarget) \/ IsDirectory(files, InitTarget)

C16_InitStep ==
    (last'.op = "nixts init") =>
        /\ TargetExists =>
              /\ last'.threw
              /\ StartsWith(last'.value, "Error: File already exists: ")
        /\ last'.threw => files' = files
        /\ ~last'.threw =>
              /\ ~TargetExists
              /\ files' = files \cup {<<InitTarget, Template>>}

C16_InitRefusesExistingTarget == [][C16_InitStep]_vars

\* init has refused the default target, which holds the user's script.
C16_Witness ==
    /\ last.op = "nixts init"
    /\ last.arg = LUndefined
    /\ last.threw
    /\ <<"/w/flake.ts", UserScript>> \in files

----------------------------------------------------------------------------
\* The entry of the programs record of builder b in heap h under a name.
ProgramEntry(h, hs, b, name) == GetOwn(h[hs[b].programs].props, name)

\* C18. A value is immutable once placed: a call set("programs.N.key", v)
\* changes the entry of program N only, by storing there; the value stored
\* under any other name, the same object passed twice included, reads after
\* the call as it read before it.
C18_StoredValuesImmutable ==
    [][(/\ last'.op = "HomeManagerBuilder.set"
        /\ Len(Split(last'.args[1], ".")) >= 3
        /\ Split(last'.args[1], ".")[1] = "programs") =>
        \A name \in ProgramNames \ {Split(last'.args[1], ".")[2]} :
            Content(heap', ProgramEntry(heap', homes', last'.recv, name))
              = Content(heap, ProgramEntry(heap, homes, last'.recv, name))]_vars

----------------------------------------------------------------------------
\* The lines `key = value;` of a value inside a named block: one per key of
\* a mapping, none for any other value.
InnerLines(h, val) ==
    IF IsObject(val) /\ ~h[val.a].isArray
    THEN [i \in 1..Len(h[val.a].props) |->
             Indent(3) \o h[val.a].props[i].k \o " = "
             \o toNixValue(h, h[val.a].props[i].val, 3) \o ";"]
    ELSE <<>>

\* The block of an entry: the opening line, the inner lines, the closing
\* line.
CleanBlock(h, kind, e) ==
    Join(<<"    " \o kind \o "." \o e.k \o " = {">> \o InnerLines(h, e.val) \o <<"    };">>, "\n")

\* C19. Brace stripping: in the text toNix returns, the block of every
\* program and service entry is its opening line, then only the entry's
\* inner `key = value;` lines, then its closing line, whatever value is
\* stored for it.
C19_BlocksHoldInnerLinesOnly ==
    (last.op = "HomeManagerBuilder.toNix") =>
        /\ \A e \in SeqRange(heap[homes[last.recv].programs].props) :
              Contains(last.value, CleanBlock(heap, "programs", e))
        /\ \A e \in SeqRange(heap[homes[last.recv].services].props) :
              Contains(last.value, CleanBlock(heap, "services", e))

----------------------------------------------------------------------------
(* Properties of set, checked under SpecReplace.                           *)

\* The keys of a record of the heap, in order.
KeySeq(h, a) == [i \in 1..Len(h[a].props) |-> h[a].props[i].k]

\* The record of builder b that a path leads into.
RecordOf(hs, b, kind) == IF kind = "programs" THEN hs[b].programs ELSE hs[b].services

\* C22. set with a path of exactly two segments under programs or services
\* replaces the whole value stored under the name with the value given: no
\* key set under the name before is kept; the entry keeps its place (a new
\* name goes last); every other program and service entry, the extra
\* settings and the other fields of the builder are as they were.
C22_TwoSegmentSetReplaces ==
    [][(/\ last'.op = "HomeManagerBuilder.set"
        /\ Len(ReplaceParts[last'.args[1]]) = 2
        /\ ReplaceParts[last'.args[1]][1] \in {"programs", "services"}) =>
        LET b == last'.recv
            kind == ReplaceParts[last'.args[1]][1]
            name == ReplaceParts[last'.args[1]][2]
            other == IF kind = "programs" THEN "services" ELSE "programs"
            rec == RecordOf(homes, b, kind)
            rec2 == RecordOf(homes', b, kind)
            oth == RecordOf(homes, b, other)
            oth2 == RecordOf(homes', b, other)
        IN  /\ ~last'.threw
            /\ Content(heap', GetOwn(heap'[rec2].props, name)) = LitContent(last'.arg)
            /\ KeySeq(heap', rec2) = IF name \in KeysOf(heap[rec].props) THEN KeySeq(heap, rec)
                                     ELSE Append(KeySeq(heap, rec), name)
            /\ \A k \in KeysOf(heap[rec].props) \ {name} :
                  Content(heap', GetOwn(heap'[rec2].props, k))
                    = Content(heap, GetOwn(heap[rec].props, k))
            /\ toNixValue(heap', VRef(oth2), 0) = toNixValue(heap, VRef(oth), 0)
            /\ toNixValue(heap', VRef(homes'[b].homeConfig), 0)
                 = toNixValue(heap, VRef(homes[b].homeConfig), 0)
            /\ [homes'[b] EXCEPT !.programs = 0, !.services = 0, !.homeConfig = 0]
                 = [homes[b] EXCEPT !.programs = 0, !.services = 0, !.homeConfig = 0]]_vars

\* set("programs.git", {}) has replaced a git entry; vim, which held the
\* same object as git and a userName set through it, still holds both keys.
C22_Witness ==
    /\ last.op = "HomeManagerBuilder.set" /\ last.args = <<"programs.git">>
    /\ last.arg = LObj(<<>>)
    /\ toNixValue(heap, VRef(homes[1].programs), 0)
         = "{\n  git = {};\n  vim = {\n    enable = true;\n    userName = \"alice\";\n  };\n}"
    /\ heap[homes[1].services].props /= <<>>

----------------------------------------------------------------------------
(* Properties of set, checked under SpecResidual.                          *)

\* A path of the last branch of set other than the single segment home.
IsResidual(parts) ==
    \/ parts[1] \notin {"programs", "services", "home"}
    \/ Len(parts) = 1 /\ parts[1] \in {"programs", "services"}

\* C23. set is a no-op for every path of its last branch other than the
\* single segment home: programs, services, extra settings, packages,
\* version tag and modules are as they were, and the profile renders as it
\* did before the call.
C23_ResidualSetNoOp ==
    [][(/\ last'.op = "HomeManagerBuilder.set"
        /\ IsResidual(ResidualParts[last'.args[1]])) =>
        /\ ~last'.threw
        /\ homes' = homes
        /\ heap' = heap
        /\ HomeManagerBuilder_toNix(heap', homes'[last'.recv])
             = HomeManagerBuilder_toNix(heap, homes[last'.recv])]_vars

\* set("programs", { tmux: { enable: true } }) has returned on a builder
\* that holds a program, a service, a package and an extra setting; no tmux
\* entry is there.
C23_Witness ==
    /\ last.op = "HomeManagerBuilder.set" /\ last.args = <<"programs">>
    /\ last.arg = LObj(<< <<"tmux", LObj(<< <<"enable", LBool(TRUE)>> >>)>> >>)
    /\ KeySeq(heap, homes[1].programs) = <<"git">>
    /\ KeySeq(heap, homes[1].services) = <<"gpg-agent">>
    /\ KeySeq(heap, homes[1].homeConfig) = <<"sessionPath">>
    /\ homes[1].packages = <<"git">>

----------------------------------------------------------------------------
(* Properties of custom modules, checked under SpecModules.                *)

RECURSIVE ModuleLines(_)
\* The module paths of a profile, one per line, in order.
ModuleLines(modules) ==
    IF modules = <<>> THEN ""
    ELSE "        " \o Head(modules) \o "\n" \o ModuleLines(Tail(modules))

\* The modules list of a profile's block: its module paths, then the one
\* nested block that holds the profile's own text.
ModulesList(h, hm) ==
    "        modules = [\n"
    \o ModuleLines(hm.modules)
    \o "          {\n"
    \o HomeManagerBuilder_toNix(h, hm) \o "\n"
    \o "          }\n"
    \o "        ];"

\* The text of build() cut after each profile's block, at its closing line.
ProfilePieces(text) == Split(text, "\n      };")

\* C24. Custom modules: the text of build() holds, for every profile, its
\* module paths, one per line in the order addModule was called, duplicates
\* kept, ahead of the one nested block with the profile's own text; the
\* text of toNix() holds no module path; and addModule changes the module
\* sequence of its builder, by appending, and nothing else.
C24_ModulesListed ==
    [][/\ (last'.op = "build") =>
             \A i \in DOMAIN homeConfigurations' :
                 EndsWith(ProfilePieces(last'.value)[i],
                          ModulesList(heap', homes'[homeConfigurations'[i]]))
       /\ (last'.op = "HomeManagerBuilder.toNix") =>
             \A m \in ModulePaths : ~Contains(last'.value, m)
       /\ (last'.op = "HomeManagerBuilder.addModule") =>
             /\ homes' = [homes EXCEPT ![last'.recv].modules = Append(@, last'.args[1])]
             /\ heap' = heap
             /\ UNCHANGED <<shells, supplied, flakeVars>>]_vars

\* build() has rendered two profiles: one with two different modules, not in
\* sorted order, and one with the same module twice.
C24_Witness ==
    /\ last.op = "build"
    /\ Len(homeConfigurations) = 2
    /\ homes[homeConfigurations[1]].modules = <<"./home.nix", "./git.nix">>
    /\ homes[homeConfigurations[2]].modules = <<"./git.nix", "./git.nix">>

----------------------------------------------------------------------------
(* Properties of the environments of a document, checked under SpecEnvs.   *)

\* The text of build() cut after each named block, at its closing line.
BlockPieces(text) == Split(text, "\n      };")

\* The block of the i-th environment attached, short of its closing line.
BlockOpen(i) == LET t == TextNow(attached[i]) IN SubSeq(t, 1, Len(t) - 9)

\* C25. Environment blocks: the text of build() holds exactly one named
\* block per environment attached, in the order they were attached, whether
\* by a configurator, as a handle or as a pre-built builder; environments of
\* one name, and a builder attached twice, each have their block.
C25_OneBlockPerEnvironment ==
    (last.op = "build" /\ attached /= <<>>) =>
        /\ Len(BlockPieces(last.value)) = Len(attached) + 1
        /\ EndsWith(BlockPieces(last.value)[1],
                    "    devShells.x86_64-linux = {\n" \o BlockOpen(1))
        /\ \A i \in 2..Len(attached) : BlockPieces(last.value)[i] = "\n" \o BlockOpen(i)
        /\ BlockPieces(last.value)[Len(attached) + 1] = "\n    };\n  };\n}"

\* build() has rendered one builder attached twice.
C25_Witness ==
    /\ last.op = "build"
    /\ Len(attached) = 2
    /\ attached[1][2] = attached[2][2]
    /\ shells[attached[1][2]].packages = <<"git">>

----------------------------------------------------------------------------
(* Properties of the inline add modes, checked under SpecInline.           *)

\* C26. The inline modes attach the new builder before they run the
\* configurator: when the configurator of addDevShell(name, fn) or of
\* addHomeConfiguration(username, fn) throws, the document has the new
\* environment or profile all the same, holding what the configurator set
\* before it failed and nothing of what came after, and build() renders it.
C26_FailedConfiguratorStaysAttached ==
    [][/\ (last'.op = "addDevShell(fn)" /\ last'.threw) =>
             /\ devShells' = Append(devShells, Len(shells') )
             /\ Len(shells') = Len(shells) + 1
             /\ shells'[Len(shells')]
                  = [DevShellBuilder_new(last'.args[1]) EXCEPT !.packages = <<"git">>]
       /\ (last'.op = "addHomeConfiguration(fn)" /\ last'.threw) =>
             /\ homeConfigurations' = Append(homeConfigurations, Len(homes'))
             /\ Len(homes') = Len(homes) + 1
             /\ homes'[Len(homes')].username = last'.args[1]
             /\ homes'[Len(homes')].modules = <<>>
             /\ toNixValue(heap', VRef(homes'[Len(homes')].programs), 0)
                  = "{\n  git = \"vim\";\n}"
       /\ (last'.op = "build") =>
             \A i \in DOMAIN attached : Contains(last'.value, TextNow(attached[i]))]_vars

\* build() has rendered an environment and a profile whose configurators
\* threw: the environment holds git alone, the profile the string stored for
\* git.
C26_Witness ==
    /\ last.op = "build"
    /\ Contains(last.value, "      default = pkgs.mkShell {\n        buildInputs = [ pkgs.git  ];")
    /\ Contains(last.value, "    programs.git = {\n\"vim\"\n    };")

----------------------------------------------------------------------------
(* Properties of the platform, checked under SpecPlatform.                 *)

\* The builders with the platform of each replaced by that of f.
WithSystems(sh, f) == [b \in DOMAIN sh |-> [sh[b] EXCEPT !.system = f[b]]]

\* C27. The platform of an environment never influences the rendered text:
\* withSystem changes the system field that buildAst() reports and nothing
\* else, and the texts of toNix() and build() are those of the same builders
\* under every other choice of platforms; so two documents built by the
\* same calls but for the values given to withSystem render the same text.
C27_PlatformNotRendered ==
    [][/\ (last'.op = "DevShellBuilder.withSystem") =>
             /\ DevShellBuilder_buildAst(shells'[last'.recv])
                  = [DevShellBuilder_buildAst(shells[last'.recv])
                       EXCEPT !.system = last'.args[1]]
             /\ \A b \in DOMAIN shells : b /= last'.recv => shells'[b] = shells[b]
             /\ DOMAIN shells' = DOMAIN shells
             /\ UNCHANGED <<homes, heap, flakeVars, supplied>>
       /\ (last'.op = "DevShellBuilder.buildAst") =>
             last'.value = shells'[last'.recv].system
       /\ (last'.op = "DevShellBuilder.toNix") =>
             \A system \in Systems :
                 last'.value
                   = DevShellBuilder_toNix([shells'[last'.recv] EXCEPT !.system = system])
       /\ (last'.op = "build") =>
             \A f \in [DOMAIN shells' -> Systems] :
                 last'.value
                   = FlakeBuilder_build(inputs', description', devShells', homeConfigurations',
                                        WithSystems(shells', f), homes', heap')]_vars

\* build() has rendered an environment that holds a package and whose
\* platform was set to one other than the default.
C27_Witness ==
    /\ last.op = "build"
    /\ \E b \in DOMAIN shells :
          /\ shells[b].system = "aarch64-darwin"
          /\ shells[b].packages = <<"git">>
          /\ \E i \in DOMAIN devShells : devShells[i] = b

----------------------------------------------------------------------------
(* Properties of the collaborators of a document, checked under SpecCollab. *)

\* The names registered by withInput.
RegisteredNames == {registered[i][1] : i \in DOMAIN registered}

\* C28. The collaborators named in the outputs declaration depend on the
\* environments and profiles attached and never on the inputs registered:
\* nixpkgs is named always and home-manager whenever a profile is attached,
\* registered or not; build() does not fail, and the inputs block has a line
\* for the names registered only, none for a collaborator left out.
C28_CollaboratorsNotFromInputs ==
    (last.op = "build") =>
        /\ ~last.threw
        /\ Contains(OutputsDecl(last.value), "nixpkgs")
        /\ Contains(OutputsDecl(last.value), "home-manager") <=> (homeConfigurations /= <<>>)
        /\ Len(InputsBlock(last.value)) = Cardinality(RegisteredNames)
        /\ \A name \in InputNames \ RegisteredNames :
              ~Contains(last.value, name \o ".url")

\* build() has returned for a document with an environment and a profile and
\* no input registered.
C28_Witness ==
    /\ last.op = "build" /\ ~last.threw
    /\ devShells /= <<>> /\ homeConfigurations /= <<>>
    /\ registered = <<>>

----------------------------------------------------------------------------
(* The username of a profile, checked under SpecUsername.                  *)

\* C29. After any sequence of HomeManagerBuilder operations getUsername()
\* returns the username given to the constructor, and the text of toNix()
\* holds exactly one home.username line, the one of that username: no
\* setter, setHomeConfig and set with a path under home included, adds a
\* second or a different username line.
C29_OneUsernameLine ==
    /\ (last.op = "HomeManagerBuilder.getUsername") => last.value = "alice"
    /\ (last.op = "HomeManagerBuilder.toNix") =>
          LinesWith(last.value, "    home.username = ")
              = <<"    home.username = \"alice\";">>

----------------------------------------------------------------------------
(* The write of nixts build, checked under SpecChild.                      *)

RECURSIVE StdoutOf(_)
\* The stdout chunks of a sequence of events, concatenated in arrival order.
StdoutOf(seen) ==
    IF seen = <<>> THEN ""
    ELSE StdoutOf(SubSeq(seen, 1, Len(seen) - 1))
         \o (IF seen[Len(seen)][1] = "stdout" THEN seen[Len(seen)][2] ELSE "")

\* The events that settle the promise.
Settling(seen) == {i \in DOMAIN seen : seen[i][1] \in {"close", "error"}}

C30_Step ==
    /\ child'.writes <= 1
    /\ (files' /= files \/ child'.writes /= child.writes) =>
          /\ child.promise = "pending" /\ Settling(child.seen) = {}
          /\ child'.seen = Append(child.seen, <<"close", "0">>)
          /\ trim(StdoutOf(child.seen)) /= ""
          /\ files' = writeFileSync(files,
                                    resolvedOutputOf(child.inputFile, child.outputFile),
                                    trim(StdoutOf(child.seen))).files
    /\ (child.promise \in {"resolved", "rejected"}) =>
          /\ files' = files
          /\ child'.writes = child.writes
          /\ child'.promise = child.promise /\ child'.value = child.value
          /\ child'.phase = child.phase

\* C30. In a CLI build the output file is written at most once, and only
\* in the step of the close event with exit code 0 that settles the promise,
\* when the stdout chunks delivered before it, concatenated in arrival
\* order, are not empty once trimmed; the text written is that trimmed
\* concatenation; and once the promise has settled no later error or close
\* event writes again or changes the outcome.
C30_WrittenOnceOnCleanClose == [][C30_Step]_vars

\* flake.nix has been written from two chunks over an earlier output, and an
\* error event has arrived after the close.
C30_Witness ==
    /\ child.phase = "returned" /\ child.writes = 1
    /\ child.seen = << <<"stdout", "{ }">>, <<"stdout", "\f\n">>, <<"close", "0">>,
                       <<"error", "spawn ENOENT">> >>
    /\ <<"/w/flake.nix", "{ }">> \in files
    /\ ~existsSync(files \ {<<"/w/flake.nix", "{ }">>}, "/w/flake.nix")

----------------------------------------------------------------------------
(* The failures of nixts build, checked under SpecChild.                   *)

\* A text of white space only.
OnlyWhiteSpace(s) == \A i \in 1..Len(s) : SubSeq(s, i, i) \in WhiteSpace

\* The input file is missing, or its name ends neither in .ts nor in .tsx.
InputRefused(fs, inputFile) ==
    \/ ~existsSync(fs, resolve(inputFile))
    \/ ~EndsWith(inputFile, ".ts") /\ ~EndsWith(inputFile, ".tsx")

\* The event delivered in this step ends the run of the user script in a
\* failure: an error, a close with a code other than 0, or a close after
\* chunks that hold white space only.
FailingEvent ==
    /\ child.phase = "awaiting"
    /\ Len(child'.seen) = Len(child.seen) + 1
    /\ LET e == child'.seen[Len(child'.seen)]
       IN  \/ e[1] = "error"
           \/ e[1] = "close" /\ e[2] /= "0"
           \/ e[1] = "close" /\ OnlyWhiteSpace(StdoutOf(child.seen))

C17_BuildStep ==
    /\ (last'.op = "buildFlake" /\ InputRefused(files, last'.args[1]))
          => child'.phase = "exited" /\ last'.threw /\ files' = files
    /\ FailingEvent
          => child'.phase = "exited" /\ last'.threw /\ files' = files
    /\ (child.phase = "awaiting" /\ child'.phase = "awaiting") => files' = files

\* C17. nixts build exits non-zero and leaves every file as it was when the
\* input file is missing, when its extension is neither .ts nor .tsx, when
\* the user script fails to start or exits non-zero, and when the script's
\* output is empty once trimmed.
C17_BuildFailureWritesNothing == [][C17_BuildStep]_vars

\* build has failed on a script that ran to the end and printed only white
\* space, and no flake.nix was written.
C17_Witness ==
    /\ child.phase = "exited" /\ child.inputFile = "flake.ts"
    /\ child.seen = << <<"stdout", "\f\n">>, <<"close", "0">> >>
    /\ last.threw /\ last.value = NoOutput
    /\ ~existsSync(files, "/w/flake.nix")

====
